---- MODULE Spec2Model ----
(***************************************************************************)
(* Optica: model / expression evaluator / penalty fitness / DE and PSO.    *)
(*                                                                         *)
(* Numbers.  The program computes in f64.  A number of the model is a      *)
(* binary floating-point value m * 2^e kept as the record [m, e] with m    *)
(* odd (or m = 0, e = 0); every arithmetic operation rounds its exact      *)
(* result to MantBits significant bits, ties to even, as f64 does with 53  *)
(* bits.  The exponent is unbounded (no overflow to infinity, no NaN).     *)
(*                                                                         *)
(* Text.  A Rust &str is a sequence of one-character strings; offsets are  *)
(* 0-based byte offsets as in the source (ASCII only).                     *)
(***************************************************************************)
EXTENDS Integers, Sequences, FiniteSets, TLC

\* Significant bits of a number of the model (f64: 53).
MantBits == 4

\* ------------------------------------------------------------------ f64

\* 2^k for 0 <= k <= 30 (1 for k < 0)
Pow2(k) == IF k <= 0 THEN 1 ELSE 2 ^ k

Abs(n) == IF n < 0 THEN -n ELSE n

Sgn(n) == IF n < 0 THEN -1 ELSE IF n > 0 THEN 1 ELSE 0

MinI(a, b) == IF a <= b THEN a ELSE b

MaxI(a, b) == IF a >= b THEN a ELSE b

\* The number of bits of a, 0 <= a < 2^31
BitLen(a) ==
  IF a <= 0 THEN 0
  ELSE CHOOSE b \in 1..31 : Pow2(b - 1) <= a /\ (b = 31 \/ a < Pow2(b))

Zero == [m |-> 0, e |-> 0]

\* None of an Option<f64>, the Err of a failed parse: no number
NoneV == [m |-> 0, e |-> -2]

\* A panic of the Rust program (a slice out of order, an index out of range, a clamp
\* with min > max): no number
PANIC == [m |-> 0, e |-> -1]

\* a local of the code: e is computed once and F reads the stored value
Once(e, F(_)) == CHOOSE r \in {F(w) : w \in {e}} : TRUE

StripBy(m, e, t) == [m |-> m \div Pow2(t), e |-> e + t]

\* m * 2^e with the factors 2 of m moved into the exponent
Strip(m, e) ==
  IF m = 0 THEN Zero
  ELSE StripBy(m, e, CHOOSE t \in 0..30 : m % Pow2(t) = 0 /\ (m \div Pow2(t)) % 2 = 1)

\* the quotient q of a magnitude by 2^k and its remainder r: q rounded to nearest,
\* ties to even
RoundUp(q, r, half) == IF r > half \/ (r = half /\ q % 2 = 1) THEN q + 1 ELSE q

\* M * 2^E with the k lowest bits of M rounded away
RoundAt(M, E, k) ==
  IF k <= 0 THEN Strip(M, E)
  ELSE Strip(Sgn(M) * RoundUp(Abs(M) \div Pow2(k), Abs(M) % Pow2(k), Pow2(k - 1)), E + k)

\* The exact value M * 2^E rounded to MantBits significant bits, ties to even.
Norm(M, E) == RoundAt(M, E, BitLen(Abs(M)) - MantBits)

\* Position of the leading bit: |x| lies in [2^(Top-1), 2^Top).
Top(x) == x.e + BitLen(Abs(x.m))

FromInt(n) == Norm(n, 0)

FNeg(x) == [m |-> -x.m, e |-> x.e]

FAbs(x) == [m |-> Abs(x.m), e |-> x.e]

\* x + y for x, y /= 0, both scaled to the exponent e
AddAligned(x, y, e) == Norm(x.m * Pow2(x.e - e) + y.m * Pow2(y.e - e), e)

\* the sum when the leading bits are tx and ty: the smaller operand is lost when it
\* lies below the rounding position of the larger
AddByTop(x, y, tx, ty) ==
  IF tx - ty > MantBits + 2 THEN x
  ELSE IF ty - tx > MantBits + 2 THEN y
  ELSE AddAligned(x, y, MinI(x.e, y.e))

\* a + b
FAdd(x, y) ==
  IF x.m = 0 THEN y
  ELSE IF y.m = 0 THEN x
  ELSE AddByTop(x, y, Top(x), Top(y))

\* a - b
FSub(x, y) == FAdd(x, FNeg(y))

\* a * b
FMul(x, y) == Norm(x.m * y.m, x.e + y.e)

\* the quotient of n by d with a sticky bit, times sg * 2^E, rounded
DivSticky(sg, n, d, E) == Norm(sg * (2 * (n \div d) + (IF n % d = 0 THEN 0 ELSE 1)), E)

\* a / b for b /= 0, the dividend scaled by 2^K
DivScaled(x, y, K) ==
  DivSticky(Sgn(x.m) * Sgn(y.m), Abs(x.m) * Pow2(K), Abs(y.m), x.e - y.e - K - 1)

\* a / b for b /= 0: the quotient with a sticky bit, then rounded.
FDiv(x, y) == DivScaled(x, y, 2 * MantBits + 2)

\* the sign of x - y for x, y of one sign sg with leading bits tx, ty
CmpByTop(x, y, sg, tx, ty) ==
  IF tx > ty THEN sg
  ELSE IF ty > tx THEN -sg
  ELSE Sgn(x.m * Pow2(x.e - MinI(x.e, y.e)) - y.m * Pow2(y.e - MinI(x.e, y.e)))

\* The sign of the exact difference x - y.
FCmp(x, y) ==
  IF x.m = 0 THEN -Sgn(y.m)
  ELSE IF y.m = 0 THEN Sgn(x.m)
  ELSE IF Sgn(x.m) # Sgn(y.m) THEN Sgn(x.m)
  ELSE CmpByTop(x, y, Sgn(x.m), Top(x), Top(y))

FLt(x, y) == FCmp(x, y) < 0

FLe(x, y) == FCmp(x, y) <= 0

FGt(x, y) == FCmp(x, y) > 0

FGe(x, y) == FCmp(x, y) >= 0

\* f64::max, f64::min
FMax(x, y) == IF FLt(x, y) THEN y ELSE x

FMin(x, y) == IF FLt(y, x) THEN y ELSE x

\* f64::clamp(lo, hi): panics when lo > hi
FClamp(v, lo, hi) ==
  IF FGt(lo, hi) THEN PANIC ELSE IF FLt(v, lo) THEN lo ELSE IF FGt(v, hi) THEN hi ELSE v

\* (hi + lo / d) * 2^E, hi an integer and 0 <= lo, rounded once
RatRound(d, E, hi, lo) == Norm(2 * (hi + lo \div d) + (IF lo % d = 0 THEN 0 ELSE 1), E - 1)

\* (A * 2^s2 / d) * 2^E, the division in two steps that stay below 2^31
RatSplit(d, E, s2, A) == RatRound(d, E, (A \div d) * Pow2(s2), (A % d) * Pow2(s2))

\* (n * 2^s / d) * 2^(E - s)
RatShift(n, d, E, s, s2) == RatSplit(d, E - s, s2, n * Pow2(s - s2))

RatScale(n, d, E, s) == RatShift(n, d, E, s, MinI(s, 30 - BitLen(d)))

\* (n / d) * 2^E for integers 0 <= n, 0 < d < 2^30, rounded once: the quotient of
\* n * 2^s by d, then a sticky bit
RatQ(n, d, E) == RatScale(n, d, E, MaxI(0, BitLen(d) - BitLen(n) + MantBits + 2))

\* The decimal literal n * 10^-k = (n / 5^k) * 2^-k, n >= 0: one rounding for
\* k <= 10, two beyond.
Dec(n, k) ==
  IF k <= 10 THEN RatQ(n, 5 ^ k, -k)
  ELSE FMul(RatQ(n, 5 ^ 10, -10), RatQ(1, 5 ^ (k - 10), 10 - k))

\* ----------------------------------------------------------------- &str

Digits == {"0", "1", "2", "3", "4", "5", "6", "7", "8", "9"}

UpperSeq == <<"A", "B", "C", "D", "E", "F", "G", "H", "I", "J", "K", "L", "M",
              "N", "O", "P", "Q", "R", "S", "T", "U", "V", "W", "X", "Y", "Z">>

LowerSeq == <<"a", "b", "c", "d", "e", "f", "g", "h", "i", "j", "k", "l", "m",
              "n", "o", "p", "q", "r", "s", "t", "u", "v", "w", "x", "y", "z">>

IsUpper(c) == \E i \in 1..26 : UpperSeq[i] = c

IsLowerLetter(c) == \E i \in 1..26 : LowerSeq[i] = c

\* char::is_ascii_digit
IsDigit(c) == c \in Digits

\* char::is_ascii_alphanumeric
IsAlnum(c) == IsDigit(c) \/ IsUpper(c) \/ IsLowerLetter(c)

\* char::is_whitespace
IsSpace(c) == c \in {" ", "\t"}

LowerChar(c) == IF IsUpper(c) THEN LowerSeq[CHOOSE i \in 1..26 : UpperSeq[i] = c] ELSE c

\* str::to_lowercase
ToLower(s) == [i \in 1..Len(s) |-> LowerChar(s[i])]

\* &s[a..b]; the caller checks a <= b <= len (Rust panics otherwise)
Slice(s, a, b) == SubSeq(s, a + 1, b)

\* &s[a..]
SliceFrom(s, a) == SubSeq(s, a + 1, Len(s))

MatchAt(s, p, i) == i + Len(p) <= Len(s) /\ SubSeq(s, i + 1, i + Len(p)) = p

\* str::find: the offset of the first match, -1 for None
Find(s, p) ==
  LET I == {i \in 0..(Len(s) - Len(p)) : MatchAt(s, p, i)}
  IN IF I = {} THEN -1 ELSE CHOOSE i \in I : \A j \in I : i <= j

\* str::contains
Contains(s, p) == Find(s, p) >= 0

\* str::starts_with
StartsWith(s, p) == MatchAt(s, p, 0)

\* str::ends_with
EndsWith(s, p) == Len(p) <= Len(s) /\ MatchAt(s, p, Len(s) - Len(p))

RECURSIVE TrimStart(_)
TrimStart(s) == IF s # <<>> /\ IsSpace(Head(s)) THEN TrimStart(Tail(s)) ELSE s

RECURSIVE TrimEnd(_)
TrimEnd(s) ==
  IF s # <<>> /\ IsSpace(s[Len(s)]) THEN TrimEnd(SubSeq(s, 1, Len(s) - 1)) ELSE s

\* str::trim
Trim(s) == TrimEnd(TrimStart(s))

\* str::trim_end_matches(c)
RECURSIVE TrimEndChar(_, _)
TrimEndChar(s, c) ==
  IF s # <<>> /\ s[Len(s)] = c THEN TrimEndChar(SubSeq(s, 1, Len(s) - 1), c) ELSE s

\* str::split(c): the pieces between the occurrences of c (never empty as a list)
RECURSIVE SplitAcc(_, _, _, _)
SplitAcc(s, c, cur, acc) ==
  IF s = <<>> THEN Append(acc, cur)
  ELSE IF Head(s) = c THEN SplitAcc(Tail(s), c, <<>>, Append(acc, cur))
  ELSE SplitAcc(Tail(s), c, Append(cur, Head(s)), acc)

Split(s, c) == SplitAcc(s, c, <<>>, <<>>)

\* [String]::join(sep)
RECURSIVE Join(_, _)
Join(parts, sep) ==
  IF parts = <<>> THEN <<>>
  ELSE IF Len(parts) = 1 THEN parts[1]
  ELSE parts[1] \o sep \o Join(Tail(parts), sep)

DigitVal(c) == CHOOSE v \in 0..9 : <<"0", "1", "2", "3", "4", "5", "6", "7", "8", "9">>[v + 1] = c

RECURSIVE DigitsToInt(_, _)
DigitsToInt(s, acc) ==
  IF s = <<>> THEN acc ELSE DigitsToInt(Tail(s), 10 * acc + DigitVal(Head(s)))

\* "<digits>[.<digits>]" as f64: NoneV unless it holds digits and at most one '.'
ParseUnsigned(s) ==
  LET dots == {i \in 1..Len(s) : s[i] = "."}
      digs == {i \in 1..Len(s) : IsDigit(s[i])}
  IN IF Cardinality(dots) > 1 \/ digs = {} \/ Cardinality(dots) + Cardinality(digs) # Len(s)
     THEN NoneV
     ELSE LET dot  == IF dots = {} THEN Len(s) + 1 ELSE CHOOSE i \in dots : TRUE
              ip   == SubSeq(s, 1, dot - 1)
              fp   == SubSeq(s, dot + 1, Len(s))
          IN Dec(DigitsToInt(ip \o fp, 0), Len(fp))

\* the parsed magnitude negated, an Err kept
NegParsed(v) == IF v = NoneV THEN NoneV ELSE FNeg(v)

\* str::parse::<f64> on decimal text with an optional sign
ParseF64(s) ==
  IF s # <<>> /\ Head(s) = "-" THEN NegParsed(ParseUnsigned(Tail(s)))
  ELSE ParseUnsigned(IF s # <<>> /\ Head(s) = "+" THEN Tail(s) ELSE s)

\* str::parse::<i32>().unwrap_or(0)
ParseI32Or0(s) ==
  LET body == IF s # <<>> /\ Head(s) \in {"-", "+"} THEN Tail(s) ELSE s
  IN IF body = <<>> \/ \E i \in 1..Len(body) : ~IsDigit(body[i]) THEN 0
     ELSE IF s # <<>> /\ Head(s) = "-" THEN -DigitsToInt(body, 0)
     ELSE DigitsToInt(body, 0)

RECURSIVE NatToStr(_)
NatToStr(n) ==
  LET d == <<"0", "1", "2", "3", "4", "5", "6", "7", "8", "9">>[(n % 10) + 1]
  IN IF n < 10 THEN <<d>> ELSE Append(NatToStr(n \div 10), d)

\* i32::to_string
IntToStr(n) == IF n < 0 THEN <<"-">> \o NatToStr(-n) ELSE NatToStr(n)

\* ----------------------------------------------- Model::evaluate_expr

TrueV == FromInt(1)

\* HashMap::get on a map kept as a function: NoneV for a missing key
MapHas(map, key) == key \in DOMAIN map

\* model.var_map.get(key): 0 for None, else the 1-based position in x
VarMapGet(model, key) ==
  LET I == {k \in 1..Len(model.var_map) : model.var_map[k].name = key}
  IN IF I = {} THEN 0 ELSE model.var_map[CHOOSE k \in I : TRUE].idx

Tok(k, v, s) == [k |-> k, v |-> v, s |-> s]

RECURSIVE ScanNum(_, _)
ScanNum(expr, j) ==
  IF j < Len(expr) /\ (IsDigit(expr[j + 1]) \/ expr[j + 1] = ".")
  THEN ScanNum(expr, j + 1) ELSE j

RECURSIVE ScanIdent(_, _)
ScanIdent(expr, j) ==
  IF j < Len(expr) /\ (IsAlnum(expr[j + 1]) \/ expr[j + 1] \in {"_", "[", "]", "."})
  THEN ScanIdent(expr, j + 1) ELSE j

\* if let Ok(v) = ...parse::<f64>() { tokens.push(Token::Num(v)) }
PushNum(toks, v) == IF v = NoneV THEN toks ELSE Append(toks, Tok("num", v, <<>>))

\* eval_arith, the tokenizer loop from byte offset i
RECURSIVE Tokenize(_, _, _)
Tokenize(expr, i, toks) ==
  IF i >= Len(expr) THEN toks
  ELSE LET c == expr[i + 1] IN
    IF IsSpace(c) THEN Tokenize(expr, i + 1, toks)
    ELSE IF IsDigit(c) \/ c = "."
    THEN LET j == ScanNum(expr, i + 1)
         IN Tokenize(expr, j, PushNum(toks, ParseUnsigned(Slice(expr, i, j))))
    ELSE IF c = "(" THEN Tokenize(expr, i + 1, Append(toks, Tok("lpar", Zero, <<>>)))
    ELSE IF c = ")" THEN Tokenize(expr, i + 1, Append(toks, Tok("rpar", Zero, <<>>)))
    ELSE IF c = "," THEN Tokenize(expr, i + 1, Append(toks, Tok("comma", Zero, <<>>)))
    ELSE IF c \in {"+", "-", "*", "/"}
    THEN Tokenize(expr, i + 1, Append(toks, Tok("op", Zero, <<c>>)))
    ELSE LET j == ScanIdent(expr, i + 1)
         IN Tokenize(expr, j, Append(toks, Tok("sym", Zero, Slice(expr, i, j))))

\* eval_arith::prec
Prec(op) == IF op \in {"+", "-"} THEN 1 ELSE IF op \in {"*", "/"} THEN 2 ELSE 0

\* while the top of the stack is an operator of precedence >= that of op, move it out
RECURSIVE PopOps(_, _, _)
PopOps(out, stack, op) ==
  IF stack # <<>> /\ stack[Len(stack)].k = "op" /\ Prec(stack[Len(stack)].s[1]) >= Prec(op)
  THEN PopOps(Append(out, stack[Len(stack)]), SubSeq(stack, 1, Len(stack) - 1), op)
  ELSE [out |-> out, stack |-> stack]

\* RPar: pop to the output until a left parenthesis (dropped) or the stack is empty
RECURSIVE PopToLPar(_, _)
PopToLPar(out, stack) ==
  IF stack = <<>> THEN [out |-> out, stack |-> stack]
  ELSE IF stack[Len(stack)].k = "lpar"
  THEN [out |-> out, stack |-> SubSeq(stack, 1, Len(stack) - 1)]
  ELSE PopToLPar(Append(out, stack[Len(stack)]), SubSeq(stack, 1, Len(stack) - 1))

\* Comma: pop to the output while the top is not a left parenthesis (kept)
RECURSIVE PopUntilLPar(_, _)
PopUntilLPar(out, stack) ==
  IF stack = <<>> \/ stack[Len(stack)].k = "lpar" THEN [out |-> out, stack |-> stack]
  ELSE PopUntilLPar(Append(out, stack[Len(stack)]), SubSeq(stack, 1, Len(stack) - 1))

\* the final drain of the stack, top first
RECURSIVE Drain(_, _)
Drain(out, stack) ==
  IF stack = <<>> THEN out
  ELSE Drain(Append(out, stack[Len(stack)]), SubSeq(stack, 1, Len(stack) - 1))

\* eval_arith, the shunting-yard loop; r is what the pops of an operator, a right
\* parenthesis or a comma left
RECURSIVE ShuntingYard(_, _, _, _)
ShuntingYard(toks, out, stack, prev_was_op) ==
  LET t == Head(toks)
      AfterOp(r)   == ShuntingYard(Tail(toks), r.out, Append(r.stack, t), TRUE)
      AfterRPar(r) == ShuntingYard(Tail(toks), r.out, r.stack, FALSE)
      AfterComma(r) == ShuntingYard(Tail(toks), r.out, r.stack, TRUE)
  IN IF toks = <<>> THEN Drain(out, stack)
     ELSE IF t.k \in {"num", "sym"} THEN ShuntingYard(Tail(toks), Append(out, t), stack, FALSE)
     ELSE IF t.k = "op"
     THEN AfterOp(PopOps(IF t.s[1] = "-" /\ prev_was_op
                         THEN Append(out, Tok("num", Zero, <<>>)) ELSE out,
                         stack, t.s[1]))
     ELSE IF t.k = "lpar" THEN ShuntingYard(Tail(toks), out, Append(stack, t), TRUE)
     ELSE IF t.k = "rpar" THEN AfterRPar(PopToLPar(out, stack))
     ELSE AfterComma(PopUntilLPar(out, stack))

\* the threshold of the division guard, 1e-12
DivEps == Dec(1, 12)

\* eval_arith, one binary operator
ApplyOp(op, a, b) ==
  IF op = "+" THEN FAdd(a, b)
  ELSE IF op = "-" THEN FSub(a, b)
  ELSE IF op = "*" THEN FMul(a, b)
  ELSE IF op = "/" THEN (IF FLt(FAbs(b), DivEps) THEN Zero ELSE FDiv(a, b))
  ELSE Zero

\* the tolerance of == and != in conditions, 1e-9
CmpEps == Dec(1, 9)

\* eval_condition / eval_comparison: the outcome of a op b
Compare(op, a, b) ==
  IF op = <<"<">> THEN FLt(a, b)
  ELSE IF op = <<"<", "=">> THEN FLe(a, b)
  ELSE IF op = <<">">> THEN FGt(a, b)
  ELSE IF op = <<">", "=">> THEN FGe(a, b)
  ELSE IF op = <<"=", "=">> THEN FLt(FAbs(FSub(a, b)), CmpEps)
  ELSE IF op = <<"!", "=">> THEN FGe(FAbs(FSub(a, b)), CmpEps)
  ELSE FALSE

\* the operators in the order eval_condition and eval_comparison try them
CmpOps == << <<"<", "=">>, <<">", "=">>, <<"=", "=">>, <<"!", "=">>, <<"<">>, <<">">> >>

\* the first operator of CmpOps that occurs in s (0 for none)
FirstCmpOp(s) ==
  LET I == {k \in 1..Len(CmpOps) : Contains(s, CmpOps[k])}
  IN IF I = {} THEN 0 ELSE CHOOSE k \in I : \A j \in I : k <= j

RECURSIVE evaluate_expr(_, _, _, _)
RECURSIVE EvalRPN(_, _, _, _, _)
RECURSIVE SumDfs(_, _, _, _, _, _, _)
RECURSIVE SumVals(_, _, _, _, _, _, _, _)

\* x[idx] for the position idx that var_map holds (an index out of range panics)
VarAt(x, vi) == IF vi <= Len(x) THEN x[vi] ELSE PANIC

\* eval_symbol, max(a, b): both arguments evaluated
MaxOf(a, b) == IF a = PANIC \/ b = PANIC THEN PANIC ELSE FMax(a, b)

\* eval_symbol, min(a, b)
MinOf(a, b) == IF a = PANIC \/ b = PANIC THEN PANIC ELSE FMin(a, b)

\* eval_symbol, name[idx_key]: the variable "name[idx_key]" at position vi of
\* var_map (0 for none), else the parameter, else 0
IndexedValue(model, x, name, idx_key, vi) ==
  IF vi # 0 THEN VarAt(x, vi)
  ELSE IF MapHas(model.params, name) /\ MapHas(model.params[name], idx_key)
  THEN model.params[name][idx_key]
  ELSE Zero

IndexedKey(model, x, name, idx_key) ==
  IndexedValue(model, x, name, idx_key,
               VarMapGet(model, name \o <<"[">> \o idx_key \o <<"]">>))

\* eval_symbol, the index tokens with the bindings of env put in
IndexTokens(env, raw) ==
  [k \in 1..Len(raw) |->
     IF MapHas(env, Trim(raw[k])) THEN env[Trim(raw[k])] ELSE Trim(raw[k])]

\* eval_symbol, a symbol with '[' at offset b
IndexedSymbol(model, sym, x, env, b) ==
  IndexedKey(model, x, Slice(sym, 0, b),
             Join(IndexTokens(env, Split(TrimEndChar(SliceFrom(sym, b + 1), "]"), ",")),
                  <<",">>))

\* eval_symbol, a symbol without '[': scalar parameter, variable at position vi of
\* var_map, number bound in env (parsed: v), else 0
PlainValue(model, sym, x, vi, v) ==
  IF MapHas(model.params, sym) /\ MapHas(model.params[sym], <<"_">>)
  THEN model.params[sym][<<"_">>]
  ELSE IF vi # 0 THEN VarAt(x, vi)
  ELSE IF v # NoneV THEN v
  ELSE Zero

PlainSymbol(model, sym, x, env) ==
  PlainValue(model, sym, x, VarMapGet(model, sym),
             IF MapHas(env, sym) THEN ParseF64(env[sym]) ELSE NoneV)

\* eval_symbol, the symbol max(..) or min(..) split at its commas
CallSymbol(model, sym, x, env, isMax, isMin, parts, b) ==
  IF isMax /\ Len(parts) = 2
  THEN MaxOf(evaluate_expr(model, Trim(parts[1]), x, env),
             evaluate_expr(model, Trim(parts[2]), x, env))
  ELSE IF isMin /\ Len(parts) = 2
  THEN MinOf(evaluate_expr(model, Trim(parts[1]), x, env),
             evaluate_expr(model, Trim(parts[2]), x, env))
  ELSE IF b >= 0 THEN IndexedSymbol(model, sym, x, env, b)
  ELSE PlainSymbol(model, sym, x, env)

\* Model::eval_symbol
eval_symbol(model, sym, x, env) ==
  CallSymbol(model, sym, x, env,
             StartsWith(sym, <<"m", "a", "x", "(">>) /\ EndsWith(sym, <<")">>),
             StartsWith(sym, <<"m", "i", "n", "(">>) /\ EndsWith(sym, <<")">>),
             Split(Slice(sym, 4, Len(sym) - 1), ","),
             Find(sym, <<"[">>))

\* eval_arith, the evaluation of the RPN output
EvalRPN(model, out, st, x, env) ==
  LET t == Head(out)
      Push(v) == IF v = PANIC THEN PANIC ELSE EvalRPN(model, Tail(out), Append(st, v), x, env)
  IN IF out = <<>> THEN (IF st = <<>> THEN Zero ELSE st[Len(st)])
     ELSE IF t.k = "num" THEN EvalRPN(model, Tail(out), Append(st, t.v), x, env)
     ELSE IF t.k = "sym" THEN Once(eval_symbol(model, t.s, x, env), Push)
     ELSE IF t.k = "op"
     THEN IF Len(st) < 2 THEN Zero
          ELSE EvalRPN(model, Tail(out),
                       Append(SubSeq(st, 1, Len(st) - 2),
                              ApplyOp(t.s[1], st[Len(st) - 1], st[Len(st)])),
                       x, env)
     ELSE EvalRPN(model, Tail(out), st, x, env)

\* Model::eval_arith
eval_arith(model, expr, x, env) ==
  EvalRPN(model, ShuntingYard(Tokenize(expr, 0, <<>>), <<>>, <<>>, TRUE), <<>>, x, env)

\* the outcome of a op b as a number: TrueV, Zero or PANIC
CompareValues(op, a, b) ==
  IF a = PANIC \/ b = PANIC THEN PANIC
  ELSE IF Compare(op, a, b) THEN TrueV ELSE Zero

\* both sides of the operator op found at offset pos of s, evaluated and compared
CompareAt(model, s, op, pos, x, env) ==
  CompareValues(op, evaluate_expr(model, Trim(Slice(s, 0, pos)), x, env),
                evaluate_expr(model, Trim(SliceFrom(s, pos + Len(op))), x, env))

\* eval_condition / eval_comparison: both sides of the first operator found,
\* evaluated and compared: TrueV, Zero or PANIC
CompareSides(model, s, k, x, env) == CompareAt(model, s, CmpOps[k], Find(s, CmpOps[k]), x, env)

\* eval_condition without an operator: the value is true when it is not 0.0
Truthy(v) == IF v = PANIC THEN PANIC ELSE IF v # Zero THEN TrueV ELSE Zero

\* eval_condition, k the first operator found (0 for none)
ConditionAt(model, cond, k, x, env) ==
  IF k # 0 THEN CompareSides(model, cond, k, x, env)
  ELSE Truthy(evaluate_expr(model, cond, x, env))

\* Model::eval_condition: TrueV, Zero or PANIC
eval_condition(model, cond, x, env) == ConditionAt(model, cond, FirstCmpOp(cond), x, env)

\* eval_comparison, k the first operator found (0 for none)
ComparisonAt(model, expr, k, x, env) ==
  IF k # 0 THEN CompareSides(model, expr, k, x, env) ELSE NoneV

\* Model::eval_comparison: NoneV when no operator occurs
eval_comparison(model, expr, x, env) == ComparisonAt(model, expr, FirstCmpOp(expr), x, env)

\* eval_if, the branch the condition value selects
IfBranch(model, expr, x, env, t_pos, e_pos, cond_val) ==
  IF cond_val = PANIC THEN PANIC
  ELSE IF cond_val = TrueV
  THEN evaluate_expr(model, Trim(Slice(expr, t_pos + 6, e_pos)), x, env)
  ELSE evaluate_expr(model, Trim(SliceFrom(expr, e_pos + 6)), x, env)

\* eval_if, the keywords at offsets t_pos and e_pos (-1 for none)
IfAt(model, expr, x, env, t_pos, e_pos) ==
  IF t_pos >= 0 /\ e_pos >= 0
  THEN IF t_pos + 6 > e_pos THEN PANIC
       ELSE IfBranch(model, expr, x, env, t_pos, e_pos,
                     eval_condition(model, Trim(Slice(expr, 0, t_pos)), x, env))
  ELSE NoneV

\* Model::eval_if: NoneV when the keywords are not both there
eval_if(model, expr, x, env) ==
  IfAt(model, expr, x, env,
       Find(ToLower(expr), <<" ", "t", "h", "e", "n", " ">>),
       Find(ToLower(expr), <<" ", "e", "l", "s", "e", " ">>))

\* evaluate_sum: the range a..b of a header part as strings
RangeDomain(a, b) == [k \in 1..(IF b >= a THEN b - a + 1 ELSE 0) |-> IntToStr(a + k - 1)]

\* evaluate_sum: the values of a header part whose set is no set of the model; dd
\* is the offset of ".." (-1 for none)
RangeAt(set_name, dd) ==
  IF dd >= 0
  THEN RangeDomain(ParseI32Or0(Trim(Slice(set_name, 0, dd))),
                   ParseI32Or0(Trim(SliceFrom(set_name, dd + 2))))
  ELSE <<set_name>>

\* evaluate_sum: the values one header part "v in S" ranges over
SumDomain(model, set_name) ==
  IF MapHas(model.sets, set_name) THEN model.sets[set_name]
  ELSE RangeAt(set_name, Find(set_name, <<".", ".">>))

\* evaluate_sum: the loop of the header part with " in " at offset pos
SumLoop(model, part, pos) ==
  IF pos >= 0
  THEN <<[var  |-> Trim(Slice(part, 0, pos)),
          vals |-> SumDomain(model, Trim(SliceFrom(part, pos + 4)))]>>
  ELSE <<>>

\* evaluate_sum: the loops of the header, in order
RECURSIVE SumLoops(_, _)
SumLoops(model, parts) ==
  IF parts = <<>> THEN <<>>
  ELSE SumLoop(model, Head(parts), Find(Head(parts), <<" ", "i", "n", " ">>))
       \o SumLoops(model, Tail(parts))

\* HashMap::insert / HashMap::remove on env
EnvInsert_KeepBound(env, k, v) ==
  [n \in (DOMAIN env) \cup {k} |-> IF n \in DOMAIN env THEN env[n] ELSE v]

EnvInsert(env, k, v) == [n \in (DOMAIN env) \cup {k} |-> IF n = k THEN v ELSE env[n]]

EnvRemove(env, k) == [n \in (DOMAIN env) \ {k} |-> env[n]]

\* evaluate_sum::dfs at depth idx: [env, acc] after it returns; acc = PANIC on a panic
SumDfs(model, loops, idx, env, body, x, acc) ==
  LET Add(v)    == [env |-> env, acc |-> IF v = PANIC THEN PANIC ELSE FAdd(acc, v)]
      Leave(r)  == [env |-> EnvRemove(r.env, loops[idx].var), acc |-> r.acc]
  IN IF idx = Len(loops) + 1
     THEN Once(evaluate_expr(model, body, x, env), Add)
     ELSE Once(SumVals(model, loops, idx, loops[idx].vals, env, body, x, acc), Leave)

\* evaluate_sum::dfs, the loop over the values of loops[idx]
SumVals(model, loops, idx, vals, env, body, x, acc) ==
  LET Rest(r) == SumVals(model, loops, idx, Tail(vals), r.env, body, x, r.acc)
  IN IF vals = <<>> \/ acc = PANIC THEN [env |-> env, acc |-> acc]
     ELSE Once(SumDfs(model, loops, idx + 1,
                      EnvInsert(env, loops[idx].var, Head(vals)), body, x, acc), Rest)

\* evaluate_sum, the header between offsets start and end (-1 for none)
SumAt(model, expr, x, env, start, end) ==
  IF start < 0 \/ end < 0 THEN Zero
  ELSE IF start + 1 > end THEN PANIC
  ELSE SumDfs(model, SumLoops(model, Split(Slice(expr, start + 1, end), ",")), 1, env,
              Trim(SliceFrom(expr, end + 1)), x, Zero).acc

\* Model::evaluate_sum: the header is parenthesized when a '(' occurs, else braced
evaluate_sum(model, expr, x, env) ==
  SumAt(model, expr, x, env,
        IF Find(expr, <<"(">>) >= 0 THEN Find(expr, <<"(">>) ELSE Find(expr, <<"{">>),
        IF Find(expr, <<"(">>) >= 0 THEN Find(expr, <<")">>) ELSE Find(expr, <<"}">>))

\* Some(v) of an Option is returned, else the alternative
OrElse(v, alt) == IF v # NoneV THEN v ELSE alt

\* evaluate_expr on the trimmed text
EvalTrimmed(model, expr, x, env) ==
  OrElse(eval_if(model, expr, x, env),
         IF StartsWith(expr, <<"s", "u", "m", "(">>) \/ StartsWith(expr, <<"s", "u", "m", "{">>)
         THEN evaluate_sum(model, expr, x, env)
         ELSE OrElse(eval_comparison(model, expr, x, env), eval_arith(model, expr, x, env)))

\* Model::evaluate_expr: a number, or PANIC
evaluate_expr(model, expr0, x, env) == EvalTrimmed(model, Trim(expr0), x, env)

\* HashMap::new(), the empty env
EmptyEnv == [n \in {} |-> <<>>]

\* ------------------------------------------------------ Model, parser.rs

\* Option<String>
NoneS == [some |-> FALSE, s |-> <<>>]

SomeS(str) == [some |-> TRUE, s |-> str]

\* ParetoMethod
Single == [kind |-> "Single", weights |-> <<>>, primary |-> <<>>, eps |-> <<>>]

WeightedSum(weights) == [kind |-> "WeightedSum", weights |-> weights, primary |-> <<>>, eps |-> <<>>]

Epsilon(primary, eps) == [kind |-> "Epsilon", weights |-> <<>>, primary |-> primary, eps |-> eps]

\* HashMap::new() for params and sets
EmptyMap == [n \in {} |-> Zero]

\* Model::new()
Model_new ==
  [dim |-> 0, lb |-> <<>>, ub |-> <<>>, var_names |-> <<>>, var_map |-> <<>>,
   maximize |-> FALSE, params |-> EmptyMap, sets |-> EmptyMap,
   objective_expr |-> NoneS, constraints |-> <<>>, objectives |-> <<>>,
   pareto |-> Single, cp_globals |-> <<>>]

\* The positions var_map keeps: for each distinct name the last position holding it
\* (HashMap::insert overwrites), in increasing order.
KeptPositions(var_names) ==
  {i \in 1..Len(var_names) : \A j \in (i + 1)..Len(var_names) : var_names[j] # var_names[i]}

\* parse, the var_map loop: the entries (name, position) of the HashMap in its
\* iteration order.  The order of a std HashMap is unspecified (RandomState): order
\* is any enumeration of the kept positions.
BuildVarMap(var_names, order) ==
  [k \in 1..Len(order) |-> [name |-> var_names[order[k]], idx |-> order[k]]]

\* All enumerations of a finite set of positions.
RECURSIVE Perms(_)
Perms(S) ==
  IF S = {} THEN {<<>>}
  ELSE UNION {{<<a>> \o p : p \in Perms(S \ {a})} : a \in S}

\* evaluate_objective without objective_expr and objectives: the sphere default
SphereDefault(x) ==
  LET sq[k \in 0..Len(x)] == IF k = 0 THEN Zero ELSE FAdd(sq[k - 1], FMul(x[k], x[k]))
  IN sq[Len(x)]

\* Model::evaluate_objective
evaluate_objective(model, x) ==
  IF model.objective_expr.some \/ model.objectives # <<>>
  THEN evaluate_expr(model,
                     IF model.objective_expr.some THEN model.objective_expr.s
                     ELSE model.objectives[1].expr,
                     x, EmptyEnv)
  ELSE SphereDefault(x)

\* the feasibility tolerance of check_constraints, 1e-9
FeasEps == Dec(1, 9)

\* OpViolation with the >= case computed as <=
OpViolation_GeAsLe(op, v, rhs) ==
  IF op = "Le" \/ op = "Ge" THEN FMax(FSub(v, rhs), Zero)
  ELSE FAbs(FSub(v, rhs))

\* the violation of a value v against (op, rhs): check_constraints and the
\* epsilon branch of compute_fitness use the same match
OpViolation(op, v, rhs) ==
  IF op = "Le" THEN FMax(FSub(v, rhs), Zero)
  ELSE IF op = "Ge" THEN FMax(FSub(rhs, v), Zero)
  ELSE FAbs(FSub(v, rhs))

\* CheckAdd with the violation added before the tolerance is tested
CheckAdd_AddBeforeTest(acc, v) ==
  [feasible |-> acc.feasible /\ ~FGt(v, FeasEps), total |-> FAdd(acc.total, v), panic |-> FALSE]

\* check_constraints, if v > 1e-9 { feasible = false; total_violation += v; }
CheckAdd(acc, v) ==
  IF FGt(v, FeasEps) THEN [feasible |-> FALSE, total |-> FAdd(acc.total, v), panic |-> FALSE]
  ELSE acc

\* check_constraints, the loop body from constraint k on; acc is (feasible,
\* total_violation) so far
RECURSIVE CheckLoop(_, _, _, _)
CheckLoop(model, k, x, acc) ==
  LET Step(lhs) ==
        IF lhs = PANIC THEN [acc EXCEPT !.panic = TRUE]
        ELSE CheckLoop(model, k + 1, x,
                       CheckAdd(acc, OpViolation(model.constraints[k].op, lhs,
                                                 model.constraints[k].rhs)))
  IN IF k > Len(model.constraints) THEN acc
     ELSE Once(evaluate_expr(model, model.constraints[k].expr, x, EmptyEnv), Step)

\* Model::check_constraints
check_constraints(model, x) ==
  CheckLoop(model, 1, x, [feasible |-> TRUE, total |-> Zero, panic |-> FALSE])

\* ------------------------------------------------- fitness, solver/mod.rs

\* PENALTY_COEFF, 1e6
PENALTY_COEFF == Dec(1000000, 0)

\* penalty_coeff, the initializer of the OnceLock: v is OPTICA_PENALTY parsed
ParsedOr(v, default) == IF v # NoneV THEN v ELSE default

\* penalty_coeff: cell is the OnceLock PENALTY_ENV (NoneV while unset), envtext the
\* environment variable OPTICA_PENALTY (NoneS when absent).  The value returned is
\* also the value the cell holds afterwards.
penalty_coeff_Uncached(cell, envtext) ==
  IF envtext.some THEN ParsedOr(ParseF64(envtext.s), PENALTY_COEFF) ELSE PENALTY_COEFF

penalty_coeff(cell, envtext) ==
  IF cell # NoneV THEN cell
  ELSE IF envtext.some THEN ParsedOr(ParseF64(envtext.s), PENALTY_COEFF)
  ELSE PENALTY_COEFF

\* x[i] for the position i that var_map holds, NoneV for None
ValAt(x, i) == IF i = 0 THEN NoneV ELSE x[i]

\* get_var_val: NoneV for None
get_var_val(model, x, key) == ValAt(x, VarMapGet(model, key))

\* Option::map(|d| start + d)
AddSome(start, d) == IF d = NoneV THEN NoneV ELSE FAdd(start, d)

\* penalty_no_overlap: the end of the task with index text idx_str, NoneV for None
IntervalEnd(model, x, end_prefix, dur_prefix, idx_str, start) ==
  IF end_prefix.some THEN get_var_val(model, x, end_prefix.s \o idx_str)
  ELSE IF dur_prefix.some
  THEN AddSome(start, get_var_val(model, x, dur_prefix.s \o idx_str))
  ELSE NoneV

\* penalty_no_overlap: if end > start { intervals.push((start, end)) }
PushInterval(intervals, start, end) ==
  IF end # NoneV /\ FGt(end, start) THEN Append(intervals, [s |-> start, e |-> end])
  ELSE intervals

\* penalty_no_overlap, first loop: the intervals pushed while var_map is iterated
\* from entry k on
RECURSIVE NoOverlapIntervals(_, _, _, _, _, _, _)
NoOverlapIntervals(model, x, start_prefix, end_prefix, dur_prefix, k, intervals) ==
  IF k > Len(model.var_map) THEN intervals
  ELSE NoOverlapIntervals(model, x, start_prefix, end_prefix, dur_prefix, k + 1,
         IF StartsWith(model.var_map[k].name, start_prefix)
         THEN PushInterval(intervals, x[model.var_map[k].idx],
                           IntervalEnd(model, x, end_prefix, dur_prefix,
                                       SliceFrom(model.var_map[k].name, Len(start_prefix)),
                                       x[model.var_map[k].idx]))
         ELSE intervals)

\* the overlap of two intervals, (e1.min(e2) - s1.max(s2)).max(0.0)
Overlap(a, b) == FMax(FSub(FMin(a.e, b.e), FMax(a.s, b.s)), Zero)

\* penalty_no_overlap: if overlap > 0.0 { vio += overlap }
AddOverlap(vio, overlap) == IF FGt(overlap, Zero) THEN FAdd(vio, overlap) ELSE vio

\* penalty_no_overlap, the pair loops from (i, j) on, 1-based
RECURSIVE PairLoop(_, _, _, _)
PairLoop(intervals, i, j, vio) ==
  IF i > Len(intervals) THEN vio
  ELSE IF j > Len(intervals) THEN PairLoop(intervals, i + 1, i + 2, vio)
  ELSE PairLoop(intervals, i, j + 1, AddOverlap(vio, Overlap(intervals[i], intervals[j])))

penalty_no_overlap(model, x, start_prefix, end_prefix, dur_prefix) ==
  PairLoop(NoOverlapIntervals(model, x, start_prefix, end_prefix, dur_prefix, 1, <<>>),
           1, 2, Zero)

\* the split of penalty_cumulative: the maximal runs of digits, '.' and '-'
IsNumChar(c) == IsDigit(c) \/ c = "." \/ c = "-"

RECURSIVE NumSplit(_, _, _)
NumSplit(line, cur, acc) ==
  IF line = <<>> THEN Append(acc, cur)
  ELSE IF IsNumChar(Head(line)) THEN NumSplit(Tail(line), Append(cur, Head(line)), acc)
  ELSE NumSplit(Tail(line), <<>>, Append(acc, cur))

\* filter_map(|t| t.parse::<f64>().ok()) over the pieces that parse
ParsedPieces(ok) == [k \in 1..Len(ok) |-> ParseF64(ok[k])]

\* nums of penalty_cumulative: the pieces that parse as f64, in line order
LineNums(line) ==
  ParsedPieces(SelectSeq(NumSplit(line, <<>>, <<>>),
                         LAMBDA t : t # <<>> /\ ParseF64(t) # NoneV))

\* penalty_cumulative: if d > 0.0 { intervals.push((start, start + d)) }
PushTask(intervals, start, d) ==
  IF d # NoneV /\ FGt(d, Zero) THEN Append(intervals, [s |-> start, e |-> FAdd(start, d)])
  ELSE intervals

\* penalty_cumulative, first loop
RECURSIVE CumulativeIntervals(_, _, _, _, _, _)
CumulativeIntervals(model, x, start_prefix, dur_prefix, k, intervals) ==
  IF k > Len(model.var_map) THEN intervals
  ELSE CumulativeIntervals(model, x, start_prefix, dur_prefix, k + 1,
         IF StartsWith(model.var_map[k].name, start_prefix)
         THEN PushTask(intervals, x[model.var_map[k].idx],
                       get_var_val(model, x,
                                   dur_prefix \o SliceFrom(model.var_map[k].name,
                                                           Len(start_prefix))))
         ELSE intervals)

\* pts after sort_by and dedup: the distinct values in increasing order
RECURSIVE SortedPts(_)
SortedPts(S) ==
  IF S = {} THEN <<>>
  ELSE LET lo == CHOOSE a \in S : \A b \in S : FLe(a, b)
       IN <<lo>> \o SortedPts(S \ {lo})

\* penalty_cumulative, the inner loop: load at mid over intervals k..
RECURSIVE LoadAt(_, _, _, _, _)
LoadAt(intervals, mid, demand, k, load) ==
  IF k > Len(intervals) THEN load
  ELSE LoadAt(intervals, mid, demand, k + 1,
              IF FGe(mid, intervals[k].s) /\ FLt(mid, intervals[k].e)
              THEN FAdd(load, demand) ELSE load)

\* the midpoint of a window, 0.5 * (t0 + t1)
MidPoint(t0, t1) == FMul(Dec(5, 1), FAdd(t0, t1))

\* penalty_cumulative: if load > capacity { vio += (load - capacity) * (t1 - t0) }
AddExcess(vio, load, capacity, t0, t1) ==
  IF FGt(load, capacity) THEN FAdd(vio, FMul(FSub(load, capacity), FSub(t1, t0)))
  ELSE vio

\* penalty_cumulative, the loop over pts.windows(2) from window w on
RECURSIVE WindowLoop(_, _, _, _, _, _)
WindowLoop(intervals, pts, demand, capacity, w, vio) ==
  IF w + 1 > Len(pts) THEN vio
  ELSE WindowLoop(intervals, pts, demand, capacity, w + 1,
                  AddExcess(vio,
                            LoadAt(intervals, MidPoint(pts[w], pts[w + 1]), demand, 1, Zero),
                            capacity, pts[w], pts[w + 1]))

\* pts of penalty_cumulative: every start and end, sorted, duplicates dropped
EndPoints(intervals) ==
  SortedPts({intervals[k].s : k \in 1..Len(intervals)}
            \cup {intervals[k].e : k \in 1..Len(intervals)})

\* penalty_cumulative after the first loop; nums are the numbers of the line
CumulativeOver(intervals, nums) ==
  IF intervals = <<>> THEN Zero
  ELSE WindowLoop(intervals, EndPoints(intervals),
                  IF Len(nums) >= 1 THEN nums[1] ELSE FromInt(1),
                  IF Len(nums) >= 2 THEN nums[2] ELSE FromInt(1), 1, Zero)

penalty_cumulative(model, x, line, start_prefix, dur_prefix) ==
  CumulativeOver(CumulativeIntervals(model, x, start_prefix, dur_prefix, 1, <<>>),
                 LineNums(line))

\* compute_cp_penalty, the loop body for the annotation g
CpAdd(model, x, g, pen) ==
  IF Contains(g, <<"n", "o", "_", "o", "v", "e", "r", "l", "a", "p">>)
  THEN FAdd(pen, penalty_no_overlap(model, x, <<"s", "t", "a", "r", "t", "[">>,
                                    SomeS(<<"e", "n", "d", "[">>), NoneS))
  ELSE IF Contains(g, <<"d", "i", "s", "j", "u", "n", "c", "t", "i", "v", "e">>)
  THEN FAdd(pen, penalty_no_overlap(model, x, <<"s", "t", "a", "r", "t", "[">>,
                                    NoneS, SomeS(<<"d", "u", "r", "a", "t", "i", "o", "n", "[">>)))
  ELSE IF Contains(g, <<"c", "u", "m", "u", "l", "a", "t", "i", "v", "e">>)
  THEN FAdd(pen, penalty_cumulative(model, x, g, <<"s", "t", "a", "r", "t", "[">>,
                                    <<"d", "u", "r", "a", "t", "i", "o", "n", "[">>))
  ELSE pen

\* compute_cp_penalty, the loop from annotation k on
RECURSIVE CpLoop(_, _, _, _)
CpLoop(model, x, k, pen) ==
  IF k > Len(model.cp_globals) THEN pen
  ELSE CpLoop(model, x, k + 1, CpAdd(model, x, model.cp_globals[k], pen))

compute_cp_penalty(model, x) == CpLoop(model, x, 1, Zero)

\* model.objectives.iter().find(|o| o.name == name): the position, 0 for None
FindObjective(model, name) ==
  LET I == {k \in 1..Len(model.objectives) : model.objectives[k].name = name}
  IN IF I = {} THEN 0 ELSE CHOOSE k \in I : \A j \in I : k <= j

\* if maximize { -v } else { v }, a panic kept
Signed(v, maximize) == IF v = PANIC THEN PANIC ELSE IF maximize THEN FNeg(v) ELSE v

\* the value of objective k with the sign of its direction applied
SignedObjective(model, k, x) ==
  Signed(evaluate_expr(model, model.objectives[k].expr, x, EmptyEnv),
         model.objectives[k].maximize)

\* compute_fitness, the weighted-sum loop from weight k on; signed[o] is the signed
\* value of objective o
RECURSIVE WeightedLoop(_, _, _, _)
WeightedLoop(model, signed, k, total) ==
  LET Add(v) == IF v = PANIC THEN PANIC
                ELSE WeightedLoop(model, signed, k + 1,
                                  FAdd(total, FMul(model.pareto.weights[k].w, v)))
      At(o)  == IF o = 0 THEN WeightedLoop(model, signed, k + 1, total)
                ELSE Once(signed[o], Add)
  IN IF k > Len(model.pareto.weights) THEN total
     ELSE Once(FindObjective(model, model.pareto.weights[k].name), At)

\* compute_fitness, the epsilon loop from entry k on
RECURSIVE EpsLoop(_, _, _, _)
EpsLoop(model, signed, k, vio_eps) ==
  LET Add(v) == IF v = PANIC THEN PANIC
                ELSE EpsLoop(model, signed, k + 1,
                             FAdd(vio_eps, OpViolation(model.pareto.eps[k].op, v,
                                                       model.pareto.eps[k].rhs)))
      At(o)  == IF o = 0 THEN EpsLoop(model, signed, k + 1, vio_eps)
                ELSE Once(signed[o], Add)
  IN IF k > Len(model.pareto.eps) THEN vio_eps
     ELSE Once(FindObjective(model, model.pareto.eps[k].name), At)

\* total + vio * penalty_coeff(), a panic of the objective or of a constraint kept
Penalized(total, cc, extra, pc) ==
  IF total = PANIC \/ extra = PANIC \/ cc.panic THEN PANIC
  ELSE FAdd(total, FMul(FAdd(cc.total, extra), pc))

\* total + vio * penalty_coeff() of the branches that add no further penalty
PenalizedPlain(total, cc, pc) ==
  IF total = PANIC \/ cc.panic THEN PANIC
  ELSE FAdd(total, FMul(cc.total, pc))

\* compute_fitness, Pareto::Epsilon: the primary objective at position o (0 for none)
EpsPrimary(signed, o) == IF o = 0 THEN Zero ELSE signed[o]

\* compute_fitness after "let (_, vio) = model.check_constraints(x)": cc is that
\* result, signed[o] the signed value of objective o where the code evaluates it
FitnessOf(model, x, pc, cc, signed) ==
  IF model.objectives # <<>>
  THEN IF model.pareto.kind = "WeightedSum" /\ model.pareto.weights # <<>>
       THEN PenalizedPlain(WeightedLoop(model, signed, 1, Zero), cc, pc)
       ELSE IF model.pareto.kind = "Epsilon"
       THEN Penalized(EpsPrimary(signed, FindObjective(model, model.pareto.primary)),
                      cc, EpsLoop(model, signed, 1, Zero), pc)
       ELSE PenalizedPlain(signed[1], cc, pc)
  ELSE Penalized(Signed(evaluate_objective(model, x), model.maximize),
                 cc, compute_cp_penalty(model, x), pc)

\* compute_fitness; pc is the value penalty_coeff() returns in this process
compute_fitness(model, x, pc) ==
  FitnessOf(model, x, pc, check_constraints(model, x),
            [o \in 1..Len(model.objectives) |-> SignedObjective(model, o, x)])

\* ------------------------------------------- DE and PSO, solver/mod.rs

\* The size of the DE population (POP_SIZE, 50 in config.rs) as the model runs it.
POP_SIZE == 3

\* The smallest island population of de_parallel (10 in the source) as the model
\* runs it.
MinSubPop == 3

\* The number of PSO particles (N_PARTICLES, 50 in config.rs) as the model runs it.
N_PARTICLES == 2

DE_F == Dec(8, 1)

DE_CR == Dec(9, 1)

PSO_C1 == FromInt(2)

PSO_C2 == FromInt(2)

PSO_W_INIT == Dec(9, 1)

PSO_W_MIN == Dec(4, 1)

PSO_W_DECAY == Dec(995, 3)

TOLERANCE == Dec(1, 10)

\* Rng::f64 returns a multiple of 2^-53 in [0, 1); Rng::usize(max) a value below max
\* (0 when max = 0).  The stream is fixed by the seed; the model lets a run see any
\* stream over these values.
RandF == {Zero, Dec(5, 1), Dec(9375, 4)}

RngUsize(max) == IF max = 0 THEN {0} ELSE 0..(max - 1)

\* one fill_f64 of a buffer of length dim
RandBufs(dim) == [1..dim -> RandF]

\* Population::initialize: the rows from the buffers rnd[i], then their fitness
Population_initialize(model, pc, size, rnd) ==
  LET data == [i \in 1..size |->
                 [j \in 1..model.dim |->
                    FAdd(model.lb[j], FMul(rnd[i][j], FSub(model.ub[j], model.lb[j])))]]
  IN [data |-> data, fit |-> [i \in 1..size |-> compute_fitness(model, data[i], pc)]]

\* Population::find_best: min_by keeps the first of equal minima; 1-based
BestIdx(fit) ==
  CHOOSE i \in 1..Len(fit) :
    /\ \A j \in 1..Len(fit) : FLe(fit[i], fit[j])
    /\ \A j \in 1..(i - 1) : FLt(fit[i], fit[j])

\* the while loops of select_parents: r advanced past the indices in avoid; -1 when
\* the loop never ends (no index is left)
RECURSIVE SkipPast(_, _, _, _)
SkipPast(r, avoid, size, fuel) ==
  IF r \notin avoid THEN r
  ELSE IF fuel = 0 THEN -1
  ELSE SkipPast((r + 1) % size, avoid, size, fuel - 1)

\* Population::select_parents, 0-based, from the two draws u1, u2
select_parents(size, i, u1, u2) ==
  LET r1 == SkipPast(u1, {i}, size, size)
      r2 == IF r1 = -1 THEN -1 ELSE SkipPast(u2, {i, r1}, size, size)
  IN [r1 |-> r1, r2 |-> r2]

\* the pairs select_parents can return for member i, over both draws
ParentChoices(size, i) ==
  {select_parents(size, i, u1, u2) : u1 \in RngUsize(size), u2 \in RngUsize(size)}

\* the mutant vector component left as computed
DeMutate_Unclamped(data, r1, r2, best, lb, ub, j) ==
  FAdd(best[j], FMul(DE_F, FSub(data[r1 + 1][j], data[r2 + 1][j])))

\* the mutant vector component best[j] + DE_F * (pop[r1][j] - pop[r2][j]), clamped
DeMutate(data, r1, r2, best, lb, ub, j) ==
  FClamp(FAdd(best[j], FMul(DE_F, FSub(data[r1 + 1][j], data[r2 + 1][j]))), lb[j], ub[j])

\* de_crossover: the trial vector (i, r1, r2, j_rand 0-based)
de_crossover(data, i, r1, r2, j_rand, best, rnd_cr, lb, ub) ==
  [j \in 1..Len(lb) |->
     IF j - 1 = j_rand THEN DeMutate(data, r1, r2, best, lb, ub, j)
     ELSE IF FLt(rnd_cr[j], DE_CR) THEN DeMutate(data, r1, r2, best, lb, ub, j)
     ELSE data[i + 1][j]]

NoRun == [engine |-> "none", pc |-> "none"]

\* de_single up to the main loop (engine "de_single"), or the closure of one island
\* of de_parallel up to its loop (engine "de_island"): a run at generation 0, member 0
DeStart(model, pc, engine, max_iter, size, rnd) ==
  LET From(pop) ==
        LET best == pop.data[BestIdx(pop.fit)]
        IN IF \E i \in 1..size : pop.fit[i] = PANIC
           THEN [engine |-> engine, pc |-> "panic"]
           ELSE [engine |-> engine, pc |-> "loop", max_iter |-> max_iter, size |-> size,
                 data |-> pop.data, fit |-> pop.fit,
                 best |-> best, best_fit |-> compute_fitness(model, best, pc),
                 iter |-> 0, i |-> 0, ret |-> NoneV]
  IN Once(Population_initialize(model, pc, size, rnd), From)

\* what the engine returns: de_single the triple, an island its pair
DeResult(run, best, best_fit, iterations) ==
  [x |-> best, fitness |-> best_fit,
   iterations |-> IF run.engine = "de_single" THEN iterations ELSE -1]

\* Population::update that stores the row and leaves its fitness as it was
Population_update_KeepFit(pop, i, trial, trial_fit) ==
  [data |-> [pop.data EXCEPT ![i + 1] = trial], fit |-> pop.fit]

\* Population::update: row i (0-based) and its fitness replaced
Population_update(pop, i, trial, trial_fit) ==
  [data |-> [pop.data EXCEPT ![i + 1] = trial], fit |-> [pop.fit EXCEPT ![i + 1] = trial_fit]]

\* the incumbent test with the comparison turned round
Improves_Reversed(trial_fit, best_fit) == FLt(best_fit, trial_fit)

\* the test that makes the trial the incumbent, trial_fit < best_fit
Improves(trial_fit, best_fit) == FLt(trial_fit, best_fit)

\* one pass of the inner loop body, member run.i of generation run.iter
DeStep(model, pc, run, par, j_rand, rnd_cr) ==
  LET Select(trial) ==
        LET Decide(trial_fit) ==
              LET accept  == FLe(trial_fit, run.fit[run.i + 1])
                  improve == accept /\ Improves(trial_fit, run.best_fit)
                  last    == run.i + 1 = run.size
                  pop     == IF accept
                             THEN Population_update([data |-> run.data, fit |-> run.fit],
                                                    run.i, trial, trial_fit)
                             ELSE [data |-> run.data, fit |-> run.fit]
                  moved   == [run EXCEPT
                                !.data = pop.data,
                                !.fit = pop.fit,
                                !.best = IF improve THEN trial ELSE @,
                                !.best_fit = IF improve THEN trial_fit ELSE @]
              IN IF (\E j \in 1..Len(trial) : trial[j] = PANIC) \/ trial_fit = PANIC
                 THEN [engine |-> run.engine, pc |-> "panic"]
                 ELSE IF improve /\ FLt(trial_fit, TOLERANCE)
                 THEN [moved EXCEPT !.pc = "done",
                                    !.ret = DeResult(run, trial, trial_fit, run.iter + 1)]
                 ELSE [moved EXCEPT !.i = IF last THEN 0 ELSE run.i + 1,
                                    !.iter = IF last THEN run.iter + 1 ELSE run.iter]
        IN Once(compute_fitness(model, trial, pc), Decide)
  IN IF par.r1 = -1 \/ par.r2 = -1 THEN [engine |-> run.engine, pc |-> "hang"]
     ELSE Once(de_crossover(run.data, run.i, par.r1, par.r2, j_rand, run.best, rnd_cr,
                            model.lb, model.ub), Select)

\* the return after the main loop
DeFinish(run) ==
  [run EXCEPT !.pc = "done", !.ret = DeResult(run, run.best, run.best_fit, run.max_iter)]

\* Swarm::find_global_best: the first index whose fitness is below all before it
\* and not above any after it (the scan starts from f64::MAX); 1-based
GlobalBestIdx(fit) == BestIdx(fit)

\* the coordinate update that clips the position and keeps the velocity
PsoCoordinate_KeepVel(vel, pos, pbest, gbest, v_max, lb, ub, w, r1, r2) ==
  LET v0 == FAdd(FAdd(FMul(w, vel), FMul(FMul(PSO_C1, r1), FSub(pbest, pos))),
                 FMul(FMul(PSO_C2, r2), FSub(gbest, pos)))
      v  == FClamp(v0, FNeg(v_max), v_max)
      p  == FAdd(pos, v)
  IN IF v = PANIC THEN [vel |-> PANIC, pos |-> PANIC]
     ELSE IF FLt(p, lb) THEN (IF FGt(lb, ub) THEN [vel |-> v, pos |-> ub]
                              ELSE [vel |-> v, pos |-> lb])
     ELSE IF FGt(p, ub) THEN [vel |-> v, pos |-> ub]
     ELSE [vel |-> v, pos |-> p]

\* pso_update_velocity_position for one coordinate: the new (vel, pos)
PsoCoordinate(vel, pos, pbest, gbest, v_max, lb, ub, w, r1, r2) ==
  LET v0 == FAdd(FAdd(FMul(w, vel), FMul(FMul(PSO_C1, r1), FSub(pbest, pos))),
                 FMul(FMul(PSO_C2, r2), FSub(gbest, pos)))
      v  == FClamp(v0, FNeg(v_max), v_max)
      p  == FAdd(pos, v)
  IN IF v = PANIC THEN [vel |-> PANIC, pos |-> PANIC]
     ELSE IF FLt(p, lb) THEN (IF FGt(lb, ub) THEN [vel |-> Zero, pos |-> ub]
                              ELSE [vel |-> Zero, pos |-> lb])
     ELSE IF FGt(p, ub) THEN [vel |-> Zero, pos |-> ub]
     ELSE [vel |-> v, pos |-> p]

\* pso up to the main loop: a run at generation 0, particle 0
PsoStart(model, pc, max_iter, rnd) ==
  LET pos == [i \in 1..N_PARTICLES |->
                [j \in 1..model.dim |->
                   FAdd(model.lb[j], FMul(rnd[i][j], FSub(model.ub[j], model.lb[j])))]]
      From(pbest_fit) ==
        LET gbest == pos[GlobalBestIdx(pbest_fit)]
        IN IF \E i \in 1..N_PARTICLES : pbest_fit[i] = PANIC
           THEN [engine |-> "pso", pc |-> "panic"]
           ELSE [engine |-> "pso", pc |-> "loop", max_iter |-> max_iter,
                 v_max |-> [j \in 1..model.dim |->
                              FMul(FSub(model.ub[j], model.lb[j]), Dec(5, 1))],
                 pos |-> pos,
                 vel |-> [i \in 1..N_PARTICLES |-> [j \in 1..model.dim |-> Zero]],
                 pbest |-> pos, pbest_fit |-> pbest_fit,
                 gbest |-> gbest, gbest_fit |-> compute_fitness(model, gbest, pc),
                 w |-> PSO_W_INIT, iter |-> 0, i |-> 0, ret |-> NoneV]
  IN Once([i \in 1..N_PARTICLES |-> compute_fitness(model, pos[i], pc)], From)

\* the personal-best test with the comparison turned round
PbestBetter_Reversed(fit, pbest_fit) == FLt(pbest_fit, fit)

\* the test that replaces a particle's personal best, fit < pbest_fit[i]
PbestBetter(fit, pbest_fit) == FLt(fit, pbest_fit)

\* one pass of the inner loop body, particle run.i of generation run.iter
PsoStep(model, pc, run, r1, r2) ==
  LET i == run.i + 1
      Moved(co) ==
        LET pos == [j \in 1..model.dim |-> co[j].pos]
            vel == [j \in 1..model.dim |-> co[j].vel]
            Decide(fit) ==
              LET better  == PbestBetter(fit, run.pbest_fit[i])
                  improve == better /\ FLt(fit, run.gbest_fit)
                  last    == i = N_PARTICLES
                  moved   == [run EXCEPT
                                !.pos = [@ EXCEPT ![i] = pos],
                                !.vel = [@ EXCEPT ![i] = vel],
                                !.pbest = IF better THEN [@ EXCEPT ![i] = pos] ELSE @,
                                !.pbest_fit = IF better THEN [@ EXCEPT ![i] = fit] ELSE @,
                                !.gbest = IF improve THEN pos ELSE @,
                                !.gbest_fit = IF improve THEN fit ELSE @]
              IN IF (\E j \in 1..model.dim : pos[j] = PANIC) \/ fit = PANIC
                 THEN [engine |-> "pso", pc |-> "panic"]
                 ELSE IF improve /\ FLt(fit, TOLERANCE)
                 THEN [moved EXCEPT
                         !.pc = "done",
                         !.ret = [x |-> pos, fitness |-> fit, iterations |-> run.iter + 1]]
                 ELSE [moved EXCEPT
                         !.i = IF last THEN 0 ELSE run.i + 1,
                         !.iter = IF last THEN run.iter + 1 ELSE run.iter,
                         !.w = IF last THEN FMax(FMul(run.w, PSO_W_DECAY), PSO_W_MIN)
                               ELSE run.w]
        IN Once(compute_fitness(model, pos, pc), Decide)
  IN Once([j \in 1..model.dim |->
             PsoCoordinate(run.vel[i][j], run.pos[i][j], run.pbest[i][j], run.gbest[j],
                           run.v_max[j], model.lb[j], model.ub[j], run.w, r1[j], r2[j])],
          Moved)

\* the return after the main loop
PsoFinish(run) ==
  [run EXCEPT !.pc = "done",
              !.ret = [x |-> run.gbest, fitness |-> run.gbest_fit, iterations |-> run.max_iter]]

\* ------------------------------------- the engines on their own PRNG

\* The width of a word of the generator (64 in rng.rs) as the model runs it.
RngBits == 8

RngWord == Pow2(RngBits)

\* a ^ b on words of n bits
RECURSIVE BitXor(_, _, _)
BitXor(a, b, n) ==
  IF n = 0 THEN 0 ELSE ((a + b) % 2) + 2 * BitXor(a \div 2, b \div 2, n - 1)

\* u64::rotate_left by k of 64 bits, the amount scaled to the width of the word
RotateLeft(v, k) ==
  LET n == (k * RngBits) \div 64
  IN ((v * Pow2(n)) % RngWord) + (v \div Pow2(RngBits - n))

\* Rng::new: s0 = seed, s1 = seed.wrapping_mul(0x9E3779B97F4A7C15); the low bits of
\* the product are those of the product of the low bits (0x7C15 = 31765).  n counts
\* the calls of next_u64 on the generator.
Rng_new(seed) ==
  [s0 |-> seed % RngWord, s1 |-> ((seed % RngWord) * (31765 % RngWord)) % RngWord,
   n |-> 0]

\* Rng::next_u64 (xorshift128+): the word drawn and the generator after the draw
next_u64(rng) ==
  LET s1 == BitXor(rng.s1, rng.s0, RngBits)
  IN [result |-> (rng.s0 + rng.s1) % RngWord,
      rng |-> [s0 |-> BitXor(BitXor(RotateLeft(rng.s0, 24), s1, RngBits),
                             (s1 * Pow2((16 * RngBits) \div 64)) % RngWord, RngBits),
               s1 |-> RotateLeft(s1, 37),
               n |-> rng.n + 1]]

\* Rng::f64 on the word u: its top bits (53 of 64 in the source, as many as a float
\* holds) as a fraction in [0, 1)
Rng_f64(u) == Norm(u \div Pow2(RngBits - MantBits), -MantBits)

\* Rng::usize on the word u: (u * max) >> 64
Rng_usize(u, max) == (u * max) \div RngWord

\* n draws in a row: the words and the generator after them
RECURSIVE Draws(_, _)
Draws(rng, n) ==
  LET Rest(d) ==
        LET After(r) == [vals |-> <<d.result>> \o r.vals, rng |-> r.rng]
        IN Once(Draws(d.rng, n - 1), After)
  IN IF n = 0 THEN [vals |-> <<>>, rng |-> rng] ELSE Once(next_u64(rng), Rest)

\* Rng::fill_f64 of a buffer of length dim from the words vals[from + 1 ..]
FillF64(vals, from, dim) == [j \in 1..dim |-> Rng_f64(vals[from + j])]

\* the seeds of de_single and of island t of de_parallel, and of pso
DeSeed(t) == 12345 + t * 7919

PsoSeed == 67890

\* de_single, or the closure of island t, up to its loop: the generator and the run
DeBegin(model, pc, engine, max_iter, size, t) ==
  LET Begun(d) ==
        [rng |-> d.rng,
         run |-> DeStart(model, pc, engine, max_iter, size,
                         [i \in 1..size |-> FillF64(d.vals, (i - 1) * model.dim, model.dim)])]
  IN Once(Draws(Rng_new(DeSeed(t)), size * model.dim), Begun)

\* select_parents that draws once more when its second draw falls on i or r1
Population_select_parents_Redraw(rng, size, i) ==
  LET d1 == next_u64(rng)
      d2 == next_u64(d1.rng)
      d3 == next_u64(d2.rng)
      r1 == SkipPast(Rng_usize(d1.result, size), {i}, size, size)
      again == Rng_usize(d2.result, size) \in {i, r1}
  IN [r1 |-> r1,
      r2 |-> SkipPast(Rng_usize((IF again THEN d3 ELSE d2).result, size), {i, r1}, size, size),
      rng |-> (IF again THEN d3 ELSE d2).rng]

\* Population::select_parents on the generator rng: rng.usize(size) and the first
\* loop, rng.usize(size) and the second loop; the pair and the generator after
Population_select_parents(rng, size, i) ==
  LET d1 == next_u64(rng)
      d2 == next_u64(d1.rng)
      par == select_parents(size, i, Rng_usize(d1.result, size), Rng_usize(d2.result, size))
  IN [r1 |-> par.r1, r2 |-> par.r2, rng |-> d2.rng]

\* the draws of one pass of the inner loop body: select_parents, rng.usize(dim) for
\* j_rand, fill_f64(rnd_cr)
MemberDraws(rng, size, i, dim) ==
  LET Drawn(p) ==
        LET Filled(d) ==
              [par |-> [r1 |-> p.r1, r2 |-> p.r2], j_rand |-> Rng_usize(d.vals[1], dim),
               rnd_cr |-> FillF64(d.vals, 1, dim), rng |-> d.rng]
        IN Once(Draws(p.rng, 1 + dim), Filled)
  IN Once(Population_select_parents(rng, size, i), Drawn)

\* one pass of the inner loop body of de_single or of an island: its draws, then the
\* rest of the body
DeAdvance(model, pc, w) ==
  LET Advanced(d) ==
        [rng |-> d.rng, run |-> DeStep(model, pc, w.run, d.par, d.j_rand, d.rnd_cr)]
  IN Once(MemberDraws(w.rng, w.run.size, w.run.i, model.dim), Advanced)

\* pso up to its loop
PsoBegin(model, pc, max_iter) ==
  LET Begun(d) ==
        [rng |-> d.rng,
         run |-> PsoStart(model, pc, max_iter,
                          [i \in 1..N_PARTICLES |->
                             FillF64(d.vals, (i - 1) * model.dim, model.dim)])]
  IN Once(Draws(Rng_new(PsoSeed), N_PARTICLES * model.dim), Begun)

\* one pass of the inner loop body of pso: fill_f64(r1_buf), fill_f64(r2_buf), the
\* rest of the body
PsoAdvance(model, pc, w) ==
  LET Advanced(d) ==
        [rng |-> d.rng,
         run |-> PsoStep(model, pc, w.run, FillF64(d.vals, 0, model.dim),
                         FillF64(d.vals, model.dim, model.dim))]
  IN Once(Draws(w.rng, 2 * model.dim), Advanced)

\* the loops of de_single or of an island from the state w to the return
RECURSIVE DeRun(_, _, _)
DeRun(model, pc, w) ==
  IF w.run.pc # "loop" THEN w.run
  ELSE IF w.run.iter = w.run.max_iter THEN DeFinish(w.run)
  ELSE DeRun(model, pc, DeAdvance(model, pc, w))

\* de_single, the call as a whole, and the closure of island t of de_parallel
de_single(model, pc, max_iter) ==
  DeRun(model, pc, DeBegin(model, pc, "de_single", max_iter, POP_SIZE, 0))

\* The thresholds of the parallel path (PARALLEL_MIN_DIM = 50 and
\* PARALLEL_MIN_ITER = 200 in config.rs) as the model runs them.
PARALLEL_MIN_DIM == 2

PARALLEL_MIN_ITER == 2

\* de: the test that sends a call to de_single
DeIsSingle(model, max_iter, threads) ==
  threads <= 1 \/ model.dim < PARALLEL_MIN_DIM \/ max_iter < PARALLEL_MIN_ITER

\* sub_pop without the floor of 10
SubPop_NoFloor(threads) == POP_SIZE \div threads

\* de_parallel: sub_pop = (POP_SIZE / threads).max(10)
SubPop(threads) == MaxI(POP_SIZE \div threads, MinSubPop)

\* de_single on the calling thread (single), or the threads that de_parallel spawns,
\* each before its first statement
DeWorkers(model, max_iter, threads, single) ==
  IF single
  THEN <<[rng |-> Rng_new(DeSeed(0)),
          run |-> [engine |-> "de_single", pc |-> "start", max_iter |-> max_iter,
                   size |-> POP_SIZE]]>>
  ELSE [t \in 1..threads |->
          [rng |-> Rng_new(DeSeed(t - 1)),
           run |-> [engine |-> "de_island", pc |-> "start", max_iter |-> max_iter,
                    size |-> SubPop(threads)]]]

\* min_by over the pairs in their order that takes the last of equal minima
JoinMin_LastOfEqual(pairs) ==
  pairs[CHOOSE i \in 1..Len(pairs) :
          /\ \A j \in 1..Len(pairs) : FLe(pairs[i].fitness, pairs[j].fitness)
          /\ \A j \in (i + 1)..Len(pairs) : FLt(pairs[i].fitness, pairs[j].fitness)]

\* de_parallel, the reduction: min_by(partial_cmp) over the pairs in the order of the
\* handles keeps the first of equal minima
JoinMin(pairs) == pairs[BestIdx([k \in 1..Len(pairs) |-> pairs[k].fitness])]

\* de_parallel, what it returns from the pairs of its islands
DeParallelResult(pairs, max_iter) ==
  [x |-> JoinMin(pairs).x, fitness |-> JoinMin(pairs).fitness, iterations |-> max_iter]

\* hybrid: the model of phase 2, its bounds drawn in around x1
HybridSubModel(model, x1) ==
  [model EXCEPT
     !.lb = [j \in 1..model.dim |->
               FMax(FSub(x1[j], FMul(FSub(model.ub[j], model.lb[j]), Dec(1, 1))), model.lb[j])],
     !.ub = [j \in 1..model.dim |->
               FMin(FAdd(x1[j], FMul(FSub(model.ub[j], model.lb[j]), Dec(1, 1))), model.ub[j])]]

\* hybrid, what it returns from the results of its two phases
HybridResult(r1, r2, max_iter) ==
  IF FLt(r2.fitness, r1.fitness)
  THEN [x |-> r2.x, fitness |-> r2.fitness, iterations |-> max_iter]
  ELSE [x |-> r1.x, fitness |-> r1.fitness, iterations |-> max_iter]

\* ------------------------------------------------------ parsed models
\* The models the specifications run on, as parse leaves them: var_map holds every
\* name of var_names, dim = len(lb) = len(ub) = len(var_names).

\* the longest constraint list drawn
MaxCons == 2

\* a Constraint (its name is dead code and left out)
Con(expr, op, rhs) == [expr |-> expr, op |-> op, rhs |-> rhs]

\* an Objective
Obj(name, expr, maximize) == [name |-> name, expr |-> expr, maximize |-> maximize]

\* parse for a text that declares var_names with the default bounds [0, 1000]; order
\* is the iteration order the HashMap var_map ends up with
Parsed(var_names, order) ==
  [Model_new EXCEPT !.dim = Len(var_names),
                    !.lb = [k \in 1..Len(var_names) |-> Zero],
                    !.ub = [k \in 1..Len(var_names) |-> Dec(1000, 0)],
                    !.var_names = var_names,
                    !.var_map = BuildVarMap(var_names, order)]

\* every iteration order var_map can have
Orders(var_names) == Perms(KeptPositions(var_names))

Ident(n) == [k \in 1..n |-> k]

\* the orders of 2n entries that keep the two variables of a task adjacent and
\* enumerate the n tasks in any order: one representative for every order in which
\* the entries with a given prefix can come
BlockOrders(n) ==
  {[k \in 1..(2 * n) |-> 2 * p[(k + 1) \div 2] - (k % 2)] : p \in Perms(1..n)}

\* "var x; var y;" with a constraint list
LinNames == <<<<"x">>, <<"y">>>>

ConAtoms ==
  {Con(<<"x">>, "Le", Zero), Con(<<"y">>, "Le", Zero),
   Con(<<"x", " ", "+", " ", "y">>, "Ge", FromInt(2)), Con(<<"x", " ", "-", " ", "y">>, "Eq", Zero)}

RECURSIVE SeqsUpTo(_, _)
SeqsUpTo(S, n) ==
  IF n = 0 THEN {<<>>}
  ELSE LET shorter == SeqsUpTo(S, n - 1)
       IN shorter \cup {Append(t, a) : t \in {u \in shorter : Len(u) = n - 1}, a \in S}

LinModels ==
  {[Parsed(LinNames, o) EXCEPT !.constraints = cs] :
     o \in Orders(LinNames), cs \in SeqsUpTo(ConAtoms, MaxCons)}

\* 2^-30, below the feasibility tolerance; two of them add up to more than it
Tiny == [m |-> 1, e |-> -30]

LinCands == {<<a, b>> : a \in {Zero, Tiny, FromInt(1), FromInt(2)},
                        b \in {Zero, Tiny, FromInt(1), FromInt(2)}}

\* two tasks a, b with start and end variables, one algebraic constraint, and the
\* objective declared in one of the ways parse accepts
TaskNames2 == <<<<"s", "t", "a", "r", "t", "[", "a", "]">>, <<"e", "n", "d", "[", "a", "]">>, <<"s", "t", "a", "r", "t", "[", "b", "]">>, <<"e", "n", "d", "[", "b", "]">>>>

CpLineNoOverlap == <<"n", "o", "_", "o", "v", "e", "r", "l", "a", "p", "(", "s", "t", "a", "r", "t", ",", " ", "e", "n", "d", ")">>

\* (objective_expr, maximize, objectives, pareto) after parse:
\*   no objective line; a minimize line; a maximize line; an objectives block with one
\*   entry; a minimize line followed by an objectives block; an objectives block with
\*   weighted_sum; an objectives block with epsilon_constraint
ObjectiveShapes ==
  {[objective_expr |-> NoneS, maximize |-> FALSE, objectives |-> <<>>, pareto |-> Single],
   [objective_expr |-> SomeS(<<"e", "n", "d", "[", "b", "]">>), maximize |-> FALSE, objectives |-> <<>>,
    pareto |-> Single],
   [objective_expr |-> SomeS(<<"s", "t", "a", "r", "t", "[", "a", "]">>), maximize |-> TRUE, objectives |-> <<>>,
    pareto |-> Single],
   [objective_expr |-> SomeS(<<"e", "n", "d", "[", "b", "]">>), maximize |-> FALSE,
    objectives |-> <<Obj(<<"f">>, <<"e", "n", "d", "[", "b", "]">>, FALSE)>>, pareto |-> Single],
   [objective_expr |-> SomeS(<<"s", "t", "a", "r", "t", "[", "a", "]">>), maximize |-> FALSE,
    objectives |-> <<Obj(<<"f">>, <<"e", "n", "d", "[", "b", "]">>, TRUE)>>, pareto |-> Single],
   [objective_expr |-> SomeS(<<"e", "n", "d", "[", "b", "]">>), maximize |-> FALSE,
    objectives |-> <<Obj(<<"f">>, <<"e", "n", "d", "[", "b", "]">>, FALSE), Obj(<<"g">>, <<"s", "t", "a", "r", "t", "[", "a", "]">>, TRUE)>>,
    pareto |-> WeightedSum(<<[name |-> <<"f">>, w |-> FromInt(2)], [name |-> <<"g">>, w |-> FromInt(1)]>>)],
   [objective_expr |-> SomeS(<<"e", "n", "d", "[", "b", "]">>), maximize |-> FALSE,
    objectives |-> <<Obj(<<"f">>, <<"e", "n", "d", "[", "b", "]">>, FALSE), Obj(<<"g">>, <<"s", "t", "a", "r", "t", "[", "a", "]">>, FALSE)>>,
    pareto |-> Epsilon(<<"f">>, <<[name |-> <<"g">>, op |-> "Le", rhs |-> FromInt(1)]>>)]}

ObjModels ==
  {[Parsed(TaskNames2, Ident(4)) EXCEPT
      !.objective_expr = sh.objective_expr, !.maximize = sh.maximize,
      !.objectives = sh.objectives, !.pareto = sh.pareto,
      !.constraints = <<Con(<<"s", "t", "a", "r", "t", "[", "a", "]">>, "Ge", FromInt(1))>>,
      !.cp_globals = g] :
     sh \in ObjectiveShapes, g \in {<<>>, <<CpLineNoOverlap>>}}

ObjCands == {<<FromInt(a), FromInt(a + 2), FromInt(b), FromInt(b + 2)>> : a \in 0..2, b \in 0..3}

\* three tasks a, b, c under no_overlap (start/end) or disjunctive (start/duration)
EndNames3 == <<<<"s", "t", "a", "r", "t", "[", "a", "]">>, <<"e", "n", "d", "[", "a", "]">>, <<"s", "t", "a", "r", "t", "[", "b", "]">>, <<"e", "n", "d", "[", "b", "]">>, <<"s", "t", "a", "r", "t", "[", "c", "]">>, <<"e", "n", "d", "[", "c", "]">>>>

DurNames3 == <<<<"s", "t", "a", "r", "t", "[", "a", "]">>, <<"d", "u", "r", "a", "t", "i", "o", "n", "[", "a", "]">>, <<"s", "t", "a", "r", "t", "[", "b", "]">>, <<"d", "u", "r", "a", "t", "i", "o", "n", "[", "b", "]">>, <<"s", "t", "a", "r", "t", "[", "c", "]">>, <<"d", "u", "r", "a", "t", "i", "o", "n", "[", "c", "]">>>>

CpLineDisjunctive == <<"d", "i", "s", "j", "u", "n", "c", "t", "i", "v", "e", "(", "s", "t", "a", "r", "t", ",", " ", "d", "u", "r", "a", "t", "i", "o", "n", ")">>

NoOverlapModels ==
  {[Parsed(EndNames3, o) EXCEPT !.cp_globals = <<CpLineNoOverlap>>] : o \in BlockOrders(3)}
  \cup
  {[Parsed(DurNames3, o) EXCEPT !.cp_globals = <<CpLineDisjunctive>>] : o \in BlockOrders(3)}

\* (start, end) of a, b, c: pairwise overlaps 16, 1, 1; touching only; one overlap;
\* an empty and a reversed interval; all three equal
EndCands ==
  {<<FromInt(0), FromInt(16), FromInt(0), FromInt(18), FromInt(15), FromInt(16)>>,
   <<FromInt(0), FromInt(1), FromInt(1), FromInt(2), FromInt(2), FromInt(3)>>,
   <<FromInt(0), FromInt(2), FromInt(1), FromInt(3), FromInt(4), FromInt(5)>>,
   <<FromInt(2), FromInt(2), FromInt(3), FromInt(1), FromInt(0), FromInt(4)>>,
   <<FromInt(1), FromInt(3), FromInt(1), FromInt(3), FromInt(1), FromInt(3)>>}

\* the same intervals given as (start, duration)
DurCands ==
  {<<FromInt(0), FromInt(16), FromInt(0), FromInt(18), FromInt(15), FromInt(1)>>,
   <<FromInt(0), FromInt(1), FromInt(1), FromInt(1), FromInt(2), FromInt(1)>>,
   <<FromInt(0), FromInt(2), FromInt(1), FromInt(2), FromInt(4), FromInt(1)>>,
   <<FromInt(2), FromInt(0), FromInt(3), FromInt(0), FromInt(0), FromInt(4)>>,
   <<FromInt(1), FromInt(2), FromInt(1), FromInt(2), FromInt(1), FromInt(2)>>}

\* two tasks under cumulative; the annotation line carries demand and capacity
DurNames2 == <<<<"s", "t", "a", "r", "t", "[", "a", "]">>, <<"d", "u", "r", "a", "t", "i", "o", "n", "[", "a", "]">>, <<"s", "t", "a", "r", "t", "[", "b", "]">>, <<"d", "u", "r", "a", "t", "i", "o", "n", "[", "b", "]">>>>

CpLinesCumulative ==
  {<<"c", "u", "m", "u", "l", "a", "t", "i", "v", "e", "(", "s", "t", "a", "r", "t", ",", " ", "d", "u", "r", "a", "t", "i", "o", "n", ",", " ", "2", ",", " ", "3", ")">>,
   <<"c", "u", "m", "u", "l", "a", "t", "i", "v", "e", "(", "s", "t", "a", "r", "t", ",", " ", "d", "u", "r", "a", "t", "i", "o", "n", ",", " ", "1", ",", " ", "2", ")">>,
   <<"c", "u", "m", "u", "l", "a", "t", "i", "v", "e", "(", "s", "t", "a", "r", "t", ",", " ", "d", "u", "r", "a", "t", "i", "o", "n", ")">>}

CumulativeModels ==
  {[Parsed(DurNames2, o) EXCEPT !.cp_globals = <<g>>] :
     o \in BlockOrders(2), g \in CpLinesCumulative}

CumCands ==
  {<<FromInt(sa), FromInt(da), FromInt(sb), FromInt(db)>> :
     sa \in {0, 1, 9}, da \in 0..2, sb \in {0, 1, 9}, db \in 0..2}

\* the models the engines run on.  "var x >= -2 <= 2" with no objective line (the
\* sphere default); the same with a second variable "var y >= 1 <= 1";
\* "var x <= 2; maximize x; subject to x <= 1"
SphereModel ==
  [Parsed(<<<<"x">>>>, Ident(1)) EXCEPT !.lb = <<FNeg(FromInt(2))>>, !.ub = <<FromInt(2)>>]

PinnedModel ==
  [Parsed(LinNames, Ident(2)) EXCEPT
     !.lb = <<FNeg(FromInt(2)), FromInt(1)>>, !.ub = <<FromInt(2), FromInt(1)>>]

MaximizeModel ==
  [Parsed(<<<<"x">>>>, Ident(1)) EXCEPT
     !.ub = <<FromInt(2)>>, !.maximize = TRUE, !.objective_expr = SomeS(<<"x">>),
     !.constraints = <<Con(<<"x">>, "Le", FromInt(1))>>]

\* models for the engines: one variable that a run drives to its lower bound, two
\* variables with an objective that reads one of them, a constant objective, bounds
\* that cross
EarlyModel ==
  [Parsed(<<<<"x">>>>, Ident(1)) EXCEPT
     !.ub = <<FromInt(5)>>, !.objective_expr = SomeS(<<"x">>)]

EdgeModel ==
  [Parsed(<<<<"x">>, <<"y">>>>, Ident(2)) EXCEPT
     !.ub = <<FromInt(8), FromInt(8)>>, !.objective_expr = SomeS(<<"x">>)]

FlatModel ==
  [Parsed(<<<<"x">>, <<"y">>>>, Ident(2)) EXCEPT
     !.ub = <<FromInt(1), FromInt(1)>>, !.objective_expr = SomeS(<<"2">>)]

CrossedModel ==
  [Parsed(<<<<"x">>, <<"y">>>>, Ident(2)) EXCEPT
     !.lb = <<FromInt(2), Zero>>, !.ub = <<FromInt(1), FromInt(8)>>]

\* models for the crossover, the second variable held by equal bounds: a range whose
\* width rounds up (-1 to 9 * 2^-7), and one around zero
NarrowModel ==
  [Parsed(<<<<"x">>, <<"y">>>>, Ident(2)) EXCEPT
     !.lb = <<FNeg(FromInt(1)), FromInt(1)>>, !.ub = <<[m |-> 9, e |-> -7], FromInt(1)>>]

AroundModel ==
  [Parsed(<<<<"x">>, <<"y">>>>, Ident(2)) EXCEPT
     !.lb = <<FNeg(FromInt(2)), FNeg(FromInt(2))>>, !.ub = <<FromInt(2), FNeg(FromInt(2))>>]

CrossModels == {NarrowModel, AroundModel}

\* the models the engines are called on
SolveModels == {EarlyModel, EdgeModel, FlatModel, MaximizeModel, CrossedModel}

SolverModels == {SphereModel, PinnedModel, MaximizeModel}

\* the largest iteration budget and thread count a run is given
MaxIter == 2

MaxThreads == 2

FitModels == LinModels \cup ObjModels \cup NoOverlapModels \cup CumulativeModels

\* the candidates tried on a model: vectors of length dim inside [lb, ub]
Candidates(m) ==
  IF m.var_names = LinNames THEN LinCands
  ELSE IF m.var_names = TaskNames2 THEN ObjCands
  ELSE IF m.var_names = EndNames3 THEN EndCands
  ELSE IF m.var_names = DurNames3 THEN DurCands
  ELSE CumCands

\* the values of the environment variable OPTICA_PENALTY: absent, "8", not a number
PenaltyTexts == {NoneS, SomeS(<<"8">>), SomeS(<<"x">>)}

\* ------------------------------------------------------ parse, parser.rs

\* the length of the first whitespace-delimited token of a text that starts with it
RECURSIVE TokenLen(_)
TokenLen(s) == IF s = <<>> \/ IsSpace(Head(s)) THEN 0 ELSE 1 + TokenLen(Tail(s))

\* split_whitespace().next()
FirstToken(s) ==
  LET t == TrimStart(s)
  IN IF t = <<>> THEN NoneS ELSE SomeS(Slice(t, 0, TokenLen(t)))

\* split_whitespace().nth(1)
SecondToken(s) ==
  LET t == TrimStart(s)
  IN FirstToken(SliceFrom(t, TokenLen(t)))

\* str::parse::<i32>().is_ok()
IsI32(s) ==
  LET body == IF s # <<>> /\ Head(s) \in {"-", "+"} THEN Tail(s) ELSE s
  IN body # <<>> /\ \A i \in 1..Len(body) : IsDigit(body[i])

\* parse_bounds: the bound after the first pat, else the default
BoundAfter(line, pat, default) ==
  LET p == Find(line, pat)
      tok == FirstToken(SliceFrom(line, p + 2))
  IN IF p < 0 \/ ~tok.some THEN default
     ELSE ParsedOr(ParseF64(TrimEndChar(tok.s, ";")), default)

\* parse_bounds
parse_bounds(line) ==
  IF Contains(line, <<"b", "i", "n", "a", "r", "y">>) \/ Contains(line, <<"B", "i", "n", "a", "r", "y">>)
  THEN [lb |-> Zero, ub |-> FromInt(1)]
  ELSE [lb |-> BoundAfter(line, <<">", "=">>, Zero),
        ub |-> BoundAfter(line, <<"<", "=">>, Dec(1000, 0))]

\* expand_indices: the value list of one index; a range whose ends do not parse
\* pushes no list at all (Skip)
ExpandIndex(idx, sets) ==
  LET dd == Find(idx, <<".", ".">>)
      a == Trim(Slice(idx, 0, dd))
      b == Trim(SliceFrom(idx, dd + 2))
  IN IF MapHas(sets, idx) THEN <<sets[idx]>>
     ELSE IF dd >= 0
     THEN IF IsI32(a) /\ IsI32(b) THEN <<RangeDomain(ParseI32Or0(a), ParseI32Or0(b))>> ELSE <<>>
     ELSE <<<<idx>>>>

\* expand_indices
RECURSIVE expand_indices(_, _)
expand_indices(idx_list, sets) ==
  IF idx_list = <<>> THEN <<>>
  ELSE ExpandIndex(Head(idx_list), sets) \o expand_indices(Tail(idx_list), sets)

\* cartesian, the inner loops: every prefix of res extended by every value of list
RECURSIVE CartesianStep(_, _)
CartesianStep(res, list) ==
  IF res = <<>> THEN <<>>
  ELSE [k \in 1..Len(list) |-> Append(Head(res), list[k])] \o CartesianStep(Tail(res), list)

\* cartesian
RECURSIVE CartesianFrom(_, _)
CartesianFrom(res, lists) ==
  IF lists = <<>> THEN res ELSE CartesianFrom(CartesianStep(res, Head(lists)), Tail(lists))

cartesian(lists) == CartesianFrom(<<<<>>>>, lists)

\* parse_var and parse_state_or_decision: the name and the indices of a declaration;
\* b is the offset of '[' (-1 for none), e that of ']' or the length
DeclHead(line, b, e) ==
  IF b < 0 THEN [name |-> FirstToken(line).s, indexed |-> FALSE, indices |-> <<>>, panic |-> FALSE]
  ELSE IF b + 1 > e THEN [name |-> <<>>, indexed |-> TRUE, indices |-> <<>>, panic |-> TRUE]
  ELSE [name |-> Trim(Slice(line, 0, b)), indexed |-> TRUE,
        indices |-> [k \in 1..Len(Split(Slice(line, b + 1, e), ",")) |->
                       Trim(Split(Slice(line, b + 1, e), ",")[k])],
        panic |-> FALSE]

DeclHeadOf(line) ==
  DeclHead(line, Find(line, <<"[">>),
           IF Find(line, <<"]">>) >= 0 THEN Find(line, <<"]">>) ELSE Len(line))

\* parse_var and parse_state_or_decision: format!("{}[{}]", name, combo.join(","))
\* for every combination, or the bare name
Combos(head, sets) ==
  IF head.indexed
  THEN LET cs == cartesian(expand_indices(head.indices, sets))
       IN [k \in 1..Len(cs) |-> head.name \o <<"[">> \o Join(cs[k], <<",">>) \o <<"]">>]
  ELSE <<head.name>>

\* parse_var and parse_state_or_decision, the closing loop: lb, ub and the name are
\* pushed together for every combination
PushVars(m, combos, lb, ub) ==
  [m EXCEPT !.lb = @ \o [k \in 1..Len(combos) |-> lb],
            !.ub = @ \o [k \in 1..Len(combos) |-> ub],
            !.var_names = @ \o combos]

\* parse_var on a line that starts with "var "; panic for a slice that panics
parse_var(line0, m, sets) ==
  LET line == TrimEndChar(SliceFrom(line0, 4), ";")
      head == DeclHeadOf(line)
      bnd == parse_bounds(line)
  IN IF head.panic THEN [m |-> m, panic |-> TRUE]
     ELSE [m |-> PushVars(m, Combos(head, sets), bnd.lb, bnd.ub), panic |-> FALSE]

\* parse_state_or_decision, the range after " in ": (start, end) when both parse
StateRange(line) ==
  LET in_pos == Find(line, <<" ", "i", "n", " ">>)
      range_str == SliceFrom(line, in_pos + 4)
      dotdot == Find(range_str, <<".", ".">>)
      start == ParseF64(Trim(Slice(range_str, 0, dotdot)))
      end == ParseF64(FirstToken(SliceFrom(range_str, dotdot + 2)).s)
  IN IF in_pos >= 0 /\ dotdot >= 0 /\ start # NoneV /\ end # NoneV
     THEN [lb |-> start, ub |-> end]
     ELSE [lb |-> Zero, ub |-> Dec(1000, 0)]

\* parse_state_or_decision on a line that starts with the prefix "state " or
\* "decision "
parse_state_or_decision(line0, m, sets, is_state) ==
  LET line == SliceFrom(TrimEndChar(line0, ";"), IF is_state THEN 6 ELSE 9)
      head == DeclHeadOf(line)
      bnd == StateRange(line)
  IN IF head.panic THEN [m |-> m, panic |-> TRUE]
     ELSE [m |-> PushVars(m, Combos(head, sets), bnd.lb, bnd.ub), panic |-> FALSE]

\* str::trim_matches over a set of characters
RECURSIVE TrimMatches(_, _)
TrimMatches(s, C) ==
  IF s # <<>> /\ Head(s) \in C THEN TrimMatches(Tail(s), C)
  ELSE IF s # <<>> /\ s[Len(s)] \in C THEN TrimMatches(SubSeq(s, 1, Len(s) - 1), C)
  ELSE s

\* s.trim().trim_matches('"').trim_matches('\'')
Unquote(s) == TrimMatches(TrimMatches(Trim(s), {"\""}), {"'"})

\* HashMap::insert
MapInsert(map, key, val) == (key :> val) @@ map

\* a range "a..b" whose ends both parse as i32: dd is the offset of ".."
IsI32Range(value, dd) ==
  dd >= 0 /\ IsI32(Trim(Slice(value, 0, dd))) /\ IsI32(Trim(SliceFrom(value, dd + 2)))

I32Range(value, dd) ==
  RangeDomain(ParseI32Or0(Trim(Slice(value, 0, dd))), ParseI32Or0(Trim(SliceFrom(value, dd + 2))))

\* parse_set, the elements between braces: trimmed, unquoted, the empty ones dropped
RECURSIVE SetElems(_)
SetElems(parts) ==
  IF parts = <<>> THEN <<>>
  ELSE (IF Unquote(Head(parts)) = <<>> THEN <<>> ELSE <<Unquote(Head(parts))>>)
       \o SetElems(Tail(parts))

\* parse_set on a line that starts with "set "
parse_set(line, sets) ==
  LET eq == Find(line, <<"=">>)
      name == Trim(Slice(line, 4, eq))
      value == TrimEndChar(Trim(SliceFrom(line, eq + 1)), ";")
      dotdot == Find(value, <<".", ".">>)
  IN IF eq < 0 THEN sets
     ELSE IF IsI32Range(value, dotdot) THEN MapInsert(sets, name, I32Range(value, dotdot))
     ELSE MapInsert(sets, name, SetElems(Split(TrimMatches(value, {"{", "}"}), ",")))

\* parse_stage on a line that starts with "stage "
parse_stage(line0, sets) ==
  LET line == TrimEndChar(line0, ";")
      in_pos == Find(line, <<" ", "i", "n", " ">>)
      var_name == Trim(Slice(line, 6, in_pos))
      range_str == Trim(SliceFrom(line, in_pos + 4))
      dotdot == Find(range_str, <<".", ".">>)
  IN IF in_pos >= 0 /\ IsI32Range(range_str, dotdot)
     THEN MapInsert(sets, var_name, I32Range(range_str, dotdot))
     ELSE sets

\* the map with the one entry "_"
ScalarMap(val) == <<"_">> :> val

\* parse_param, the pairs "key: value" of an indexed parameter
RECURSIVE PairsMap(_, _)
PairsMap(pairs, map) ==
  IF pairs = <<>> THEN map
  ELSE LET pair == Trim(Head(pairs))
           colon == Find(pair, <<":">>)
           val == ParseF64(Trim(SliceFrom(pair, colon + 1)))
       IN PairsMap(Tail(pairs),
                   IF colon >= 0 /\ val # NoneV
                   THEN MapInsert(map, Unquote(Slice(pair, 0, colon)), val)
                   ELSE map)

\* parse_param on a line that starts with "param "
parse_param(line0, params) ==
  LET line == TrimEndChar(line0, ";")
      eq == Find(line, <<"=">>)
      name_part == Trim(IF eq >= 0 THEN Slice(line, 6, eq) ELSE SliceFrom(line, 6))
      value_str == Trim(SliceFrom(line, eq + 1))
      bracket == Find(name_part, <<"[">>)
      name == Trim(Slice(name_part, 0, bracket))
  IN IF eq < 0
     THEN IF bracket >= 0 THEN MapInsert(params, name, EmptyMap) ELSE params
     ELSE IF bracket < 0
     THEN IF ParseF64(value_str) # NoneV
          THEN MapInsert(params, name_part, ScalarMap(ParseF64(value_str)))
          ELSE params
     ELSE MapInsert(params, name,
                    PairsMap(Split(TrimMatches(value_str, {"{", "}"}), ","), EmptyMap))

\* HashMap::entry(name).or_default()
EntryOrDefault(params, name) == IF MapHas(params, name) THEN params[name] ELSE EmptyMap

\* parse_data_assignment
parse_data_assignment(line, params) ==
  LET eq == Find(line, <<"=">>)
      name_part == Trim(Slice(line, 0, eq))
      value_str == Trim(SliceFrom(line, eq + 1))
      b == Find(name_part, <<"[">>)
      name == Trim(Slice(name_part, 0, b))
      idx == Trim(TrimEndChar(SliceFrom(name_part, b + 1), "]"))
  IN IF eq < 0 THEN params
     ELSE IF b < 0
     THEN IF ParseF64(value_str) # NoneV
          THEN MapInsert(params, name_part, ScalarMap(ParseF64(value_str)))
          ELSE params
     ELSE MapInsert(params, name,
                    MapInsert(EntryOrDefault(params, name), idx,
                              ParsedOr(ParseF64(value_str), Zero)))

\* line[colon + 1..].trim().trim_end_matches(';')
AfterColon(line, colon) == TrimEndChar(Trim(SliceFrom(line, colon + 1)), ";")

\* parse_objective
parse_objective(line, m) ==
  LET colon == Find(line, <<":">>)
  IN IF colon >= 0 THEN [m EXCEPT !.objective_expr = SomeS(AfterColon(line, colon))]
     ELSE IF StartsWith(line, <<"m", "a", "x", "i", "m", "i", "z", "e", " ">>) \/ StartsWith(line, <<"m", "i", "n", "i", "m", "i", "z", "e", " ">>)
     THEN [m EXCEPT !.objective_expr = SomeS(TrimEndChar(Trim(SliceFrom(line, 9)), ";"))]
     ELSE m

\* parse_objective_named: (name, expr)
parse_objective_named(line) ==
  LET colon == Find(line, <<":">>)
      second == SecondToken(Trim(Slice(line, 0, colon)))
  IN IF colon >= 0
     THEN [name |-> IF second.some THEN second.s ELSE <<"o", "b", "j">>, expr |-> AfterColon(line, colon)]
     ELSE [name |-> <<"o", "b", "j">>, expr |-> TrimEndChar(line, ";")]

\* parse_constraint, the operator looked for: "<=" first, then ">=", then "=="
ConOp(expr_part) ==
  IF Contains(expr_part, <<"<", "=">>) THEN [op |-> "Le", str |-> <<"<", "=">>]
  ELSE IF Contains(expr_part, <<">", "=">>) THEN [op |-> "Ge", str |-> <<">", "=">>]
  ELSE IF Contains(expr_part, <<"=", "=">>) THEN [op |-> "Eq", str |-> <<"=", "=">>]
  ELSE [op |-> "None", str |-> <<>>]

\* parse_constraint, the right-hand side: a number, else the value the parameter of
\* that name has in params when the line is parsed, else 0.0
ConRhs(rhs_str, params) ==
  IF ParseF64(rhs_str) # NoneV THEN ParseF64(rhs_str)
  ELSE IF MapHas(params, rhs_str) /\ MapHas(params[rhs_str], <<"_">>) THEN params[rhs_str][<<"_">>]
  ELSE Zero

\* parse_constraint
parse_constraint(line0, m) ==
  LET line == TrimEndChar(line0, ";")
      colon == Find(line, <<":">>)
      expr_part == Trim(SliceFrom(line, colon + 1))
      o == ConOp(expr_part)
      p == Find(expr_part, o.str)
      rest == SliceFrom(expr_part, p + 2)
  IN IF Contains(line, <<"n", "o", "_", "o", "v", "e", "r", "l", "a", "p">>) \/ Contains(line, <<"d", "i", "s", "j", "u", "n", "c", "t", "i", "v", "e">>)
        \/ Contains(line, <<"c", "u", "m", "u", "l", "a", "t", "i", "v", "e">>)
     THEN [m EXCEPT !.cp_globals = Append(@, line)]
     ELSE IF o.op = "None" \/ Contains(rest, o.str) THEN m
     ELSE [m EXCEPT !.constraints =
             Append(@, Con(Trim(Slice(expr_part, 0, p)), o.op, ConRhs(Trim(rest), m.params)))]

\* parse, the lines skipped before anything else
Skipped(line) ==
  \/ line = <<>>
  \/ StartsWith(line, <<"#">>)
  \/ StartsWith(line, <<"/", "/">>)
  \/ StartsWith(line, <<"m", "o", "d", "e", "l", " ">>)
  \/ StartsWith(line, <<"p", "r", "o", "b", "l", "e", "m", " ">>)
  \/ StartsWith(line, <<"t", "r", "a", "n", "s", "i", "t", "i", "o", "n", ":">>)
  \/ StartsWith(line, <<"d", "e", "f", " ">>)
  \/ StartsWith(line, <<"b", "e", "l", "l", "m", "a", "n", " ">>)
  \/ StartsWith(line, <<"t", "e", "r", "m", "i", "n", "a", "l", " ">>)
  \/ StartsWith(line, <<"i", "n", "i", "t", "i", "a", "l", ":">>)
  \/ StartsWith(line, <<"e", "n", "d">>)
  \/ line = <<"}">>

\* parse, the lines that end a data block
DataEnds(line) ==
  \/ line = <<>>
  \/ StartsWith(line, <<"p", "a", "r", "a", "m", " ">>)
  \/ StartsWith(line, <<"v", "a", "r", " ">>)
  \/ StartsWith(line, <<"s", "e", "t", " ">>)
  \/ StartsWith(line, <<"s", "u", "b", "j", "e", "c", "t", " ", "t", "o">>)
  \/ StartsWith(line, <<"m", "a", "x", "i", "m", "i", "z", "e">>)
  \/ StartsWith(line, <<"m", "i", "n", "i", "m", "i", "z", "e">>)

\* the locals of parse before the first line
ParseStart ==
  [m |-> Model_new, in_subject_to |-> FALSE, in_data |-> FALSE, in_objectives |-> FALSE,
   weights |-> <<>>, eps_constraints |-> <<>>, primary_obj |-> NoneS, pareto_mode |-> NoneS,
   panic |-> FALSE]

WeightedSumMode == SomeS(<<"w", "e", "i", "g", "h", "t", "e", "d", "_", "s", "u", "m">>)

EpsilonMode == SomeS(<<"e", "p", "s", "i", "l", "o", "n", "_", "c", "o", "n", "s", "t", "r", "a", "i", "n", "t">>)

\* parse, a "pareto method:" line: the mode it names, else the mode as it was
ModeOf(line, mode) ==
  IF Contains(line, <<"w", "e", "i", "g", "h", "t", "e", "d", "_", "s", "u", "m">>) THEN WeightedSumMode
  ELSE IF Contains(line, <<"e", "p", "s", "i", "l", "o", "n", "_", "c", "o", "n", "s", "t", "r", "a", "i", "n", "t">>) THEN EpsilonMode
  ELSE mode

\* parse, a "weight NAME: w" line
WeightPush(weights, line) ==
  LET colon == Find(line, <<":">>)
  IN IF colon < 0 THEN weights
     ELSE Append(weights, [name |-> Trim(Slice(line, 7, colon)),
                           w |-> ParsedOr(ParseF64(Trim(SliceFrom(line, colon + 1))), Zero)])

\* str::replace(':', "")
RECURSIVE RemoveColons(_)
RemoveColons(s) ==
  IF s = <<>> THEN <<>>
  ELSE (IF Head(s) = ":" THEN <<>> ELSE <<Head(s)>>) \o RemoveColons(Tail(s))

\* parse, an epsilon line "NAME <= t"; s is the line without its colons
EpsPush(eps, s) ==
  Append(eps, [name |-> Trim(Slice(s, 0, Find(s, <<"<", "=">>))), op |-> "Le",
               rhs |-> ParsedOr(ParseF64(Trim(SliceFrom(s, Find(s, <<"<", "=">>) + 2))), Zero)])

\* parse, "decide pareto method" at the "subject to" line that closes an objectives
\* block
DecidePareto(st) ==
  IF st.pareto_mode = WeightedSumMode /\ st.weights # <<>> THEN WeightedSum(st.weights)
  ELSE IF st.pareto_mode = EpsilonMode /\ st.primary_obj.some
  THEN Epsilon(st.primary_obj.s, st.eps_constraints)
  ELSE st.m.pareto

\* parse, a maximize or minimize line of an objectives block
ObjectivePush(m, line) ==
  LET maximize == StartsWith(line, <<"m", "a", "x", "i", "m", "i", "z", "e">>)
      named == parse_objective_named(line)
      pushed == [m EXCEPT !.objectives = Append(@, Obj(named.name, named.expr, maximize))]
  IN IF m.objective_expr.some THEN pushed
     ELSE [pushed EXCEPT !.maximize = maximize, !.objective_expr = SomeS(named.expr)]

\* parse, a line met inside an objectives block
InObjectives(st, line) ==
  IF StartsWith(line, <<"s", "u", "b", "j", "e", "c", "t", " ", "t", "o">>)
  THEN [st EXCEPT !.in_objectives = FALSE, !.in_subject_to = TRUE, !.m.pareto = DecidePareto(st)]
  ELSE IF StartsWith(line, <<"p", "a", "r", "e", "t", "o", " ", "m", "e", "t", "h", "o", "d", ":">>)
  THEN [st EXCEPT !.pareto_mode = ModeOf(line, @)]
  ELSE IF st.pareto_mode = WeightedSumMode /\ StartsWith(line, <<"w", "e", "i", "g", "h", "t", " ">>)
  THEN [st EXCEPT !.weights = WeightPush(@, line)]
  ELSE IF st.pareto_mode = EpsilonMode /\ StartsWith(line, <<"p", "r", "i", "m", "a", "r", "y", ":">>)
  THEN [st EXCEPT !.primary_obj = SomeS(Trim(SliceFrom(line, 8)))]
  ELSE IF st.pareto_mode = EpsilonMode /\ StartsWith(line, <<"e", "p", "s", "i", "l", "o", "n", ":">>) THEN st
  ELSE IF st.pareto_mode = EpsilonMode /\ Contains(line, <<"<", "=">>)
  THEN [st EXCEPT !.eps_constraints = EpsPush(@, RemoveColons(line))]
  ELSE IF StartsWith(line, <<"m", "a", "x", "i", "m", "i", "z", "e">>) \/ StartsWith(line, <<"m", "i", "n", "i", "m", "i", "z", "e">>)
  THEN [st EXCEPT !.m = ObjectivePush(@, line)]
  ELSE st

\* parse, the closing if-else chain over the kinds of line
Dispatch(st, line) ==
  IF StartsWith(line, <<"s", "e", "t", " ">>) THEN [st EXCEPT !.m.sets = parse_set(line, @)]
  ELSE IF StartsWith(line, <<"s", "t", "a", "g", "e", " ">>) THEN [st EXCEPT !.m.sets = parse_stage(line, @)]
  ELSE IF StartsWith(line, <<"s", "t", "a", "t", "e", " ">>)
  THEN [st EXCEPT !.m = parse_state_or_decision(line, st.m, st.m.sets, TRUE).m,
                  !.panic = parse_state_or_decision(line, st.m, st.m.sets, TRUE).panic]
  ELSE IF StartsWith(line, <<"d", "e", "c", "i", "s", "i", "o", "n", " ">>)
  THEN [st EXCEPT !.m = parse_state_or_decision(line, st.m, st.m.sets, FALSE).m,
                  !.panic = parse_state_or_decision(line, st.m, st.m.sets, FALSE).panic]
  ELSE IF StartsWith(line, <<"p", "a", "r", "a", "m", " ">>) THEN [st EXCEPT !.m.params = parse_param(line, @)]
  ELSE IF StartsWith(line, <<"v", "a", "r", " ">>)
  THEN [st EXCEPT !.m = parse_var(line, st.m, st.m.sets).m,
                  !.panic = parse_var(line, st.m, st.m.sets).panic]
  ELSE IF StartsWith(line, <<"m", "a", "x", "i", "m", "i", "z", "e">>)
  THEN [st EXCEPT !.m = parse_objective(line, [st.m EXCEPT !.maximize = TRUE])]
  ELSE IF StartsWith(line, <<"m", "i", "n", "i", "m", "i", "z", "e">>)
  THEN [st EXCEPT !.m = parse_objective(line, [st.m EXCEPT !.maximize = FALSE])]
  ELSE IF StartsWith(line, <<"s", "u", "b", "j", "e", "c", "t", " ", "t", "o">>) THEN [st EXCEPT !.in_subject_to = TRUE]
  ELSE IF st.in_subject_to THEN [st EXCEPT !.m = parse_constraint(line, @)]
  ELSE st

\* parse, a line met outside an objectives block
Outside(st, line) ==
  IF StartsWith(line, <<"p", "a", "r", "e", "t", "o", " ", "m", "e", "t", "h", "o", "d", ":">>) THEN [st EXCEPT !.pareto_mode = ModeOf(line, @)]
  ELSE IF StartsWith(line, <<"w", "e", "i", "g", "h", "t", " ">>) THEN [st EXCEPT !.weights = WeightPush(@, line)]
  ELSE IF StartsWith(line, <<"p", "r", "i", "m", "a", "r", "y", ":">>)
  THEN [st EXCEPT !.primary_obj = SomeS(Trim(SliceFrom(line, 8)))]
  ELSE IF StartsWith(line, <<"e", "p", "s", "i", "l", "o", "n", ":">>) THEN st
  ELSE IF st.pareto_mode = EpsilonMode /\ Contains(line, <<"<", "=">>)
  THEN [st EXCEPT !.eps_constraints = EpsPush(@, RemoveColons(line))]
  ELSE Dispatch(st, line)

\* parse, the loop body for one line of the source
ParseLine(st, raw) ==
  LET line == Trim(raw)
  IN IF st.panic \/ Skipped(line) THEN st
     ELSE IF StartsWith(line, <<"o", "b", "j", "e", "c", "t", "i", "v", "e", "s", ":">>)
     THEN [st EXCEPT !.in_objectives = TRUE, !.in_subject_to = FALSE]
     ELSE IF StartsWith(line, <<"d", "a", "t", "a", ":">>) THEN [st EXCEPT !.in_data = TRUE]
     ELSE IF st.in_data /\ ~DataEnds(line)
     THEN [st EXCEPT !.m.params = parse_data_assignment(line, @)]
     ELSE IF st.in_objectives THEN InObjectives([st EXCEPT !.in_data = FALSE], line)
     ELSE Outside([st EXCEPT !.in_data = FALSE], line)

\* parse, the loop over source.lines()
RECURSIVE ParseLines(_, _)
ParseLines(st, lines) ==
  IF lines = <<>> THEN st ELSE ParseLines(ParseLine(st, Head(lines)), Tail(lines))

\* parse, the end: var_map is built from var_names and dim is the length of lb.
\* The source is given as its lines; order is the iteration order var_map ends up
\* with.
ParseEnd(st, order) ==
  [panic |-> st.panic,
   m |-> [st.m EXCEPT !.var_map = BuildVarMap(st.m.var_names, order), !.dim = Len(st.m.lb)]]

\* parse: a Model, or a panic
parse(lines, order) == ParseEnd(ParseLines(ParseStart, lines), order)

\* ------------------------------------------------------ Args::parse, cli.rs

\* config::DEFAULT_MAX_ITER
DEFAULT_MAX_ITER == 1000

\* str::parse::<usize>(): digits after an optional '+', -1 for Err
ParseUsize(s) ==
  LET body == IF s # <<>> /\ Head(s) = "+" THEN Tail(s) ELSE s
  IN IF body = <<>> \/ \E i \in 1..Len(body) : ~IsDigit(body[i]) THEN -1
     ELSE DigitsToInt(body, 0)

\* args.get(i): None past the end (i counts from 0)
ArgGet(args, i) == IF i < Len(args) THEN SomeS(args[i + 1]) ELSE NoneS

\* args.get(i).and_then(|s| s.parse().ok()).unwrap_or(default)
ArgUsizeOr(args, i, default) ==
  IF ArgGet(args, i).some /\ ParseUsize(ArgGet(args, i).s) >= 0
  THEN ParseUsize(ArgGet(args, i).s)
  ELSE default

\* Args::parse, the command named by args[0]; Err for "solve" without a file
ArgsCommand(args) ==
  LET cmd_str == args[1]
  IN IF cmd_str = <<"s", "o", "l", "v", "e">>
     THEN IF Len(args) < 2 THEN [kind |-> "Err", file |-> <<>>, dim |-> 0]
          ELSE [kind |-> "Solve", file |-> args[2], dim |-> 0]
     ELSE IF cmd_str = <<"b", "e", "n", "c", "h">>
     THEN [kind |-> "Bench", file |-> <<>>, dim |-> ArgUsizeOr(args, 1, 100)]
     ELSE IF cmd_str = <<"r", "e", "p", "l">> THEN [kind |-> "Repl", file |-> <<>>, dim |-> 0]
     ELSE IF cmd_str \in {<<"v", "e", "r", "s", "i", "o", "n">>, <<"-", "v">>, <<"-", "-", "v", "e", "r", "s", "i", "o", "n">>}
     THEN [kind |-> "Version", file |-> <<>>, dim |-> 0]
     ELSE IF cmd_str \in {<<"h", "e", "l", "p">>, <<"-", "h">>, <<"-", "-", "h", "e", "l", "p">>}
     THEN [kind |-> "Help", file |-> <<>>, dim |-> 0]
     ELSE [kind |-> "Solve", file |-> cmd_str, dim |-> 0]

\* Args::parse, the options before the first argument is looked at; cpus is what
\* num_cpus() returns
ArgsDefault(command, cpus) ==
  [command |-> command, method |-> <<"a", "u", "t", "o">>, max_iter |-> DEFAULT_MAX_ITER, threads |-> cpus,
   verbose |-> FALSE, quiet |-> FALSE]

\* Args::parse, start_idx
ArgsStart(args, command) ==
  IF command.kind = "Solve" /\ ~StartsWith(args[1], <<"-">>) THEN 2 ELSE 1

\* Args::parse, the while loop from index i on
RECURSIVE ArgsLoop(_, _, _, _)
ArgsLoop(args, i, a, cpus) ==
  IF i >= Len(args) THEN a
  ELSE IF args[i + 1] \in {<<"-", "m">>, <<"-", "-", "m", "e", "t", "h", "o", "d">>}
  THEN ArgsLoop(args, i + 2,
                [a EXCEPT !.method = IF ArgGet(args, i + 1).some THEN ArgGet(args, i + 1).s
                                     ELSE <<"a", "u", "t", "o">>], cpus)
  ELSE IF args[i + 1] \in {<<"-", "i">>, <<"-", "-", "i", "t", "e", "r">>}
  THEN ArgsLoop(args, i + 2, [a EXCEPT !.max_iter = ArgUsizeOr(args, i + 1, DEFAULT_MAX_ITER)],
                cpus)
  ELSE IF args[i + 1] \in {<<"-", "t">>, <<"-", "-", "t", "h", "r", "e", "a", "d", "s">>}
  THEN ArgsLoop(args, i + 2, [a EXCEPT !.threads = ArgUsizeOr(args, i + 1, cpus)], cpus)
  ELSE IF args[i + 1] \in {<<"-", "v">>, <<"-", "-", "v", "e", "r", "b", "o", "s", "e">>}
  THEN ArgsLoop(args, i + 1, [a EXCEPT !.verbose = TRUE], cpus)
  ELSE IF args[i + 1] \in {<<"-", "q">>, <<"-", "-", "q", "u", "i", "e", "t">>}
  THEN ArgsLoop(args, i + 1, [a EXCEPT !.quiet = TRUE], cpus)
  ELSE ArgsLoop(args, i + 1, a, cpus)

\* Args::parse: Ok(Args), or Err
Args_parse(args, cpus) ==
  IF args = <<>>
  THEN [ok |-> TRUE, args |-> ArgsDefault([kind |-> "Help", file |-> <<>>, dim |-> 0], cpus)]
  ELSE IF ArgsCommand(args).kind = "Err"
  THEN [ok |-> FALSE, args |-> ArgsDefault(ArgsCommand(args), cpus)]
  ELSE [ok |-> TRUE,
        args |-> ArgsLoop(args, ArgsStart(args, ArgsCommand(args)),
                          ArgsDefault(ArgsCommand(args), cpus), cpus)]

\* ------------------------------------------------------------- state

VARIABLES
  model,           \* the Model parse returned to this process
  PENALTY_ENV,     \* the OnceLock of solver/mod.rs: NoneV until penalty_coeff ran
  OPTICA_PENALTY,  \* the environment variable, an Option<String>
  x,               \* the candidate handed to the function under call
  out,             \* the last call and what it returned
  run,             \* the engine run of this process: its locals, its return value
  twin             \* a second process started on the same source text with the same
                   \* method, budget and environment: its Model and its run

vars == <<model, PENALTY_ENV, OPTICA_PENALTY, x, out, run, twin>>

Idle == [op |-> "none", r |-> Zero]

\* no second process
NoTwin == [model |-> Model_new, run |-> NoRun]

\* -------------------------------------------- the fitness layer, called

InitFit ==
  /\ model \in FitModels
  /\ x \in Candidates(model)
  /\ OPTICA_PENALTY \in PenaltyTexts
  /\ PENALTY_ENV = NoneV
  /\ out = Idle
  /\ run = NoRun
  /\ twin = NoTwin

\* model.check_constraints(x)
CallCheckConstraints ==
  /\ out' = [op |-> "check_constraints", r |-> check_constraints(model, x)]
  /\ UNCHANGED <<twin, model, PENALTY_ENV, OPTICA_PENALTY, x, run>>

\* compute_fitness(model, x); its call of penalty_coeff fills PENALTY_ENV
CallComputeFitness ==
  LET pc == penalty_coeff(PENALTY_ENV, OPTICA_PENALTY)
  IN /\ out' = [op |-> "compute_fitness", r |-> compute_fitness(model, x, pc)]
     /\ PENALTY_ENV' = pc
     /\ UNCHANGED <<twin, model, OPTICA_PENALTY, x, run>>

\* compute_cp_penalty(model, x)
CallCpPenalty ==
  /\ out' = [op |-> "compute_cp_penalty", r |-> compute_cp_penalty(model, x)]
  /\ UNCHANGED <<twin, model, PENALTY_ENV, OPTICA_PENALTY, x, run>>

NextFit == CallCheckConstraints \/ CallComputeFitness \/ CallCpPenalty

SpecFit == InitFit /\ [][NextFit]_vars

\* ------------------------------------------------------- a DE run

\* de(model, max_iter, threads) takes de_single here (dim < PARALLEL_MIN_DIM);
\* de_parallel runs the island closure once per thread
InitDE ==
  /\ model \in SolverModels
  /\ OPTICA_PENALTY \in (IF model.constraints = <<>> THEN {NoneS} ELSE PenaltyTexts)
  /\ PENALTY_ENV = NoneV
  /\ x = <<>>
  /\ out = Idle
  /\ twin = NoTwin
  /\ \E max_iter \in 0..MaxIter :
       \/ run = [engine |-> "de_single", pc |-> "start", max_iter |-> max_iter,
                 size |-> POP_SIZE]
       \/ \E threads \in 2..MaxThreads :
            run = [engine |-> "de_island", pc |-> "start", max_iter |-> max_iter,
                   size |-> MaxI(POP_SIZE \div threads, MinSubPop)]

\* Rng::new, Population::new and initialize, find_best, the first best_fit
DeInitialize ==
  /\ run.engine \in {"de_single", "de_island"}
  /\ run.pc = "start"
  /\ \E rnd \in [1..run.size -> RandBufs(model.dim)] :
       LET pc == penalty_coeff(PENALTY_ENV, OPTICA_PENALTY)
       IN /\ run' = DeStart(model, pc, run.engine, run.max_iter, run.size, rnd)
          /\ PENALTY_ENV' = pc
  /\ UNCHANGED <<twin, model, OPTICA_PENALTY, x, out>>

\* the body of "for i in 0..POP_SIZE" once
DeMember ==
  /\ run.engine \in {"de_single", "de_island"}
  /\ run.pc = "loop"
  /\ run.iter < run.max_iter
  /\ \E par \in ParentChoices(run.size, run.i), j_rand \in RngUsize(model.dim),
        rnd_cr \in RandBufs(model.dim) :
       run' = DeStep(model, PENALTY_ENV, run, par, j_rand, rnd_cr)
  /\ UNCHANGED <<twin, model, PENALTY_ENV, OPTICA_PENALTY, x, out>>

\* the loops are over: (best, best_fit, max_iter)
DeReturn ==
  /\ run.engine \in {"de_single", "de_island"}
  /\ run.pc = "loop"
  /\ run.iter = run.max_iter
  /\ run' = DeFinish(run)
  /\ UNCHANGED <<twin, model, PENALTY_ENV, OPTICA_PENALTY, x, out>>

NextDE == DeInitialize \/ DeMember \/ DeReturn

SpecDE == InitDE /\ [][NextDE]_vars

\* ------------------------------------------------------- a PSO run

InitPSO ==
  /\ model \in SolverModels
  /\ OPTICA_PENALTY \in (IF model.constraints = <<>> THEN {NoneS} ELSE PenaltyTexts)
  /\ PENALTY_ENV = NoneV
  /\ x = <<>>
  /\ out = Idle
  /\ twin = NoTwin
  /\ \E max_iter \in 0..MaxIter : run = [engine |-> "pso", pc |-> "start", max_iter |-> max_iter]

\* Rng::new, v_max, Swarm::new and initialize, pbest_fit, find_global_best, gbest_fit
PsoInitialize ==
  /\ run.engine = "pso"
  /\ run.pc = "start"
  /\ \E rnd \in [1..N_PARTICLES -> RandBufs(model.dim)] :
       LET pc == penalty_coeff(PENALTY_ENV, OPTICA_PENALTY)
       IN /\ run' = PsoStart(model, pc, run.max_iter, rnd)
          /\ PENALTY_ENV' = pc
  /\ UNCHANGED <<twin, model, OPTICA_PENALTY, x, out>>

\* the body of "for i in 0..N_PARTICLES" once; after the last particle the decay of w
PsoParticle ==
  /\ run.engine = "pso"
  /\ run.pc = "loop"
  /\ run.iter < run.max_iter
  /\ \E r1 \in RandBufs(model.dim), r2 \in RandBufs(model.dim) :
       run' = PsoStep(model, PENALTY_ENV, run, r1, r2)
  /\ UNCHANGED <<twin, model, PENALTY_ENV, OPTICA_PENALTY, x, out>>

\* the loops are over: (gbest, gbest_fit, max_iter)
PsoReturn ==
  /\ run.engine = "pso"
  /\ run.pc = "loop"
  /\ run.iter = run.max_iter
  /\ run' = PsoFinish(run)
  /\ UNCHANGED <<twin, model, PENALTY_ENV, OPTICA_PENALTY, x, out>>

NextPSO == PsoInitialize \/ PsoParticle \/ PsoReturn

SpecPSO == InitPSO /\ [][NextPSO]_vars

\* -------------------------------------------- the evaluator, called

\* the most pieces an expression text is put together from
MaxPieces == 3

\* the pieces of the expression texts: a variable, an unknown symbol, a number,
\* operators, the keywords of the conditional, parentheses, the head of a sum
ExprPieces ==
  {<<"x">>, <<"z">>, <<"2">>, <<"+">>, <<"/">>, <<"<">>,
   <<" ", "t", "h", "e", "n", " ">>, <<" ", "e", "l", "s", "e", " ">>,
   <<"(">>, <<")">>, <<"s", "u", "m", "{">>, <<"}">>}

\* the expression texts handed to evaluate_expr
ExprTexts == {Join(t, <<>>) : t \in SeqsUpTo(ExprPieces, MaxPieces)}

\* the operators of a constant expression
ArithOps == {"+", "-", "*", "/"}

\* the operands of a constant expression: a literal, or a literal under a unary minus
ArithOperands == {<<"2">>, <<"3">>, <<"-", "2">>, <<"-", "3">>}

\* constant expressions of one, two and three operands, as their pieces
ArithShapes ==
  {<<a>> : a \in ArithOperands}
  \cup {<<a, <<o>>, b>> : a \in ArithOperands, o \in ArithOps, b \in ArithOperands}
  \cup {<<a, <<o>>, b, <<q>>, c>> :
          a \in ArithOperands, o \in ArithOps, b \in ArithOperands,
          q \in ArithOps, c \in ArithOperands}

\* the constant expression texts
ArithTexts == {Join(s, <<>>) : s \in ArithShapes}

\* the arguments of a function call: literals and a variable
CallArgs == {<<"2">>, <<"3">>, <<"x">>}

\* the calls max(a,b) and min(a,b)
CallTexts ==
  {f \o <<"(">> \o a \o <<",">> \o b \o <<")">> :
     f \in {<<"m", "a", "x">>, <<"m", "i", "n">>}, a \in CallArgs, b \in CallArgs}

\* the variables of SymbolModel, as parse_var expands "var x; var w; var y[S];
\* var a[1..1, 2..2];" with S = {1, 2}
SymbolNames ==
  <<<<"x">>, <<"w">>, <<"y", "[", "1", "]">>, <<"y", "[", "2", "]">>,
    <<"a", "[", "1", ",", "2", "]">>>>

\* a model whose names meet: x is a variable and a scalar parameter, w a variable
\* only, p a scalar parameter only, y an indexed variable and an indexed parameter,
\* c an indexed parameter with one and with two indices, a a variable of two indices
SymbolModel ==
  [Parsed(SymbolNames, Ident(5)) EXCEPT
     !.params = (<<"x">> :> (<<"_">> :> FromInt(7)))
                @@ (<<"p">> :> (<<"_">> :> FromInt(6)))
                @@ (<<"y">> :> (<<"1">> :> FromInt(10)))
                @@ (<<"c">> :> ((<<"1">> :> FromInt(8)) @@ (<<"1", ",", "2">> :> FromInt(9)))),
     !.sets = (<<"S">> :> <<<<"1">>, <<"2">>>>)]

\* candidates of SymbolModel, inside its bounds
SymbolCands ==
  {<<FromInt(1), FromInt(2), FromInt(3), FromInt(4), FromInt(5)>>,
   <<FromInt(5), FromInt(4), FromInt(2), FromInt(1), FromInt(3)>>}

\* the envs of the calls: empty, index names bound, names of the model bound
EvalEnvs ==
  {EmptyEnv,
   <<"i">> :> <<"1">>,
   (<<"i">> :> <<"1">>) @@ (<<"j">> :> <<"2">>),
   (<<"i">> :> <<"2">>) @@ (<<"k">> :> <<"3">>),
   (<<"w">> :> <<"9">>) @@ (<<"p">> :> <<"5">>) @@ (<<"k">> :> <<"S">>)}

\* symbols, plain and with one or two index tokens
SymbolTexts ==
  {<<"x">>, <<"w">>, <<"p">>, <<"k">>, <<"q">>,
   <<"y", "[", "1", "]">>, <<"y", "[", "i", "]">>, <<"y", "[", "3", "]">>,
   <<"c", "[", "1", "]">>, <<"c", "[", "i", "]">>,
   <<"a", "[", "1", ",", "2", "]">>, <<"a", "[", "i", ",", "j", "]">>,
   <<"c", "[", "1", ",", "2", "]">>, <<"c", "[", "i", ",", "j", "]">>}

\* the headers of the sums: a set, a range, an empty range, two quantifiers
SumHeaders ==
  {<<"i", " ", "i", "n", " ", "S">>,
   <<"i", " ", "i", "n", " ", "1", ".", ".", "2">>,
   <<"i", " ", "i", "n", " ", "2", ".", ".", "1">>,
   <<"i", " ", "i", "n", " ", "S", ",", " ", "j", " ", "i", "n", " ", "1", ".", ".", "2">>,
   <<"j", " ", "i", "n", " ", "2", ".", ".", "3", ",", "i", " ", "i", "n", " ", "S">>}

\* the bodies of the sums
SumBodies ==
  {<<"y", "[", "i", "]">>, <<"c", "[", "i", "]">>, <<"i">>, <<"i", " ", "+", " ", "j">>,
   <<"y", "[", "i", "]", " ", "*", " ", "j">>, <<"w">>}

\* the sums sum(header) body
SumTexts ==
  {<<"s", "u", "m", "(">> \o h \o <<")", " ">> \o b : h \in SumHeaders, b \in SumBodies}

\* the calls of evaluate_expr: an expression text and the env it is evaluated in
EvalCalls ==
  {[expr |-> e, env |-> EmptyEnv] : e \in ExprTexts \cup ArithTexts \cup CallTexts}
  \cup {[expr |-> e, env |-> v] : e \in SymbolTexts \cup SumTexts, v \in EvalEnvs}

\* candidates of PinnedModel, inside its bounds
EvalCands == {<<FromInt(a), FromInt(1)>> : a \in {-1, 0, 2}}

InitEval ==
  /\ \/ model = PinnedModel /\ x \in EvalCands
     \/ model = SymbolModel /\ x \in SymbolCands
  /\ OPTICA_PENALTY = NoneS
  /\ PENALTY_ENV = NoneV
  /\ out = Idle
  /\ run = NoRun
  /\ twin = NoTwin

\* model.evaluate_expr(expr, x, &env), called once
CallEvaluateExpr ==
  /\ out = Idle
  /\ \E c \in EvalCalls :
       out' = [op |-> "evaluate_expr", expr |-> c.expr, env |-> c.env,
               r |-> evaluate_expr(model, c.expr, x, c.env)]
  /\ UNCHANGED <<twin, model, PENALTY_ENV, OPTICA_PENALTY, x, run>>

NextEval == CallEvaluateExpr

SpecEval == InitEval /\ [][NextEval]_vars

\* ------------------------------- two processes on one source text

\* "var start[a] >= 0 <= 0; var end[a] >= 16 <= 16; ... minimize start[a];
\* subject to no_overlap(start, end)": three tasks a, b, c that overlap pairwise by
\* 16, 1 and 1; end[b] is free in [18, 20], every other variable is pinned
TwinLb == <<FromInt(0), FromInt(16), FromInt(0), FromInt(18), FromInt(15), FromInt(16)>>

TwinUb == <<FromInt(0), FromInt(16), FromInt(0), FromInt(20), FromInt(15), FromInt(16)>>

\* parse of that text in a process whose var_map iterates in order o
TwinModel(o) ==
  [Parsed(EndNames3, o) EXCEPT
     !.lb = TwinLb, !.ub = TwinUb,
     !.objective_expr = SomeS(<<"s", "t", "a", "r", "t", "[", "a", "]">>),
     !.cp_globals = <<CpLineNoOverlap>>]

\* one fill_f64 as both processes read it from Rng::new(seed): the buffers tried
\* hold one number throughout
TwinBufs(dim) == {[j \in 1..dim |-> r] : r \in RandF}

\* both processes parse the text, read the same OPTICA_PENALTY and are handed the same
\* method and budget; the iteration order of var_map is each process's own: the
\* declaration order in this one, any order in the second
InitTwin ==
  /\ model = TwinModel(Ident(6))
  /\ OPTICA_PENALTY = NoneS
  /\ PENALTY_ENV = NoneV
  /\ x = <<>>
  /\ out = Idle
  /\ \E max_iter \in 0..MaxIter :
       \/ run = [engine |-> "de_single", pc |-> "start", max_iter |-> max_iter,
                 size |-> POP_SIZE]
       \/ run = [engine |-> "pso", pc |-> "start", max_iter |-> max_iter]
  /\ \E o \in BlockOrders(3) : twin = [model |-> TwinModel(o), run |-> run]

\* the Model and the run of process p: 1 is this process, 2 the second
ProcModel(p) == IF p = 1 THEN model ELSE twin.model

ProcRun(p) == IF p = 1 THEN run ELSE twin.run

\* DeInitialize in both processes, on the same random numbers; PENALTY_ENV stands for
\* the OnceLock of either process, both filled from the same OPTICA_PENALTY
TwinDeInitialize ==
  /\ run.engine = "de_single"
  /\ run.pc = "start"
  /\ PENALTY_ENV' = penalty_coeff(PENALTY_ENV, OPTICA_PENALTY)
  /\ \E rnd \in [1..run.size -> TwinBufs(model.dim)] :
       \E r \in {[p \in 1..2 |->
                    DeStart(ProcModel(p), penalty_coeff(PENALTY_ENV, OPTICA_PENALTY),
                            run.engine, run.max_iter, run.size, rnd)]} :
         /\ run' = r[1]
         /\ twin' = [twin EXCEPT !.run = r[2]]
  /\ UNCHANGED <<model, OPTICA_PENALTY, x, out>>

\* DeMember in both processes, on the same random numbers
TwinDeMember ==
  /\ run.engine = "de_single"
  /\ run.pc = "loop"
  /\ run.iter < run.max_iter
  /\ \E par \in ParentChoices(run.size, run.i), j_rand \in RngUsize(model.dim),
        rnd_cr \in TwinBufs(model.dim) :
       \E r \in {[p \in 1..2 |->
                    DeStep(ProcModel(p), PENALTY_ENV, ProcRun(p), par, j_rand, rnd_cr)]} :
         /\ run' = r[1]
         /\ twin' = [twin EXCEPT !.run = r[2]]
  /\ UNCHANGED <<model, PENALTY_ENV, OPTICA_PENALTY, x, out>>

\* DeReturn in both processes
TwinDeReturn ==
  /\ run.engine = "de_single"
  /\ run.pc = "loop"
  /\ run.iter = run.max_iter
  /\ run' = DeFinish(run)
  /\ twin' = [twin EXCEPT !.run = DeFinish(twin.run)]
  /\ UNCHANGED <<model, PENALTY_ENV, OPTICA_PENALTY, x, out>>

\* PsoInitialize in both processes, on the same random numbers
TwinPsoInitialize ==
  /\ run.engine = "pso"
  /\ run.pc = "start"
  /\ PENALTY_ENV' = penalty_coeff(PENALTY_ENV, OPTICA_PENALTY)
  /\ \E rnd \in [1..N_PARTICLES -> TwinBufs(model.dim)] :
       \E r \in {[p \in 1..2 |->
                    PsoStart(ProcModel(p), penalty_coeff(PENALTY_ENV, OPTICA_PENALTY),
                             run.max_iter, rnd)]} :
         /\ run' = r[1]
         /\ twin' = [twin EXCEPT !.run = r[2]]
  /\ UNCHANGED <<model, OPTICA_PENALTY, x, out>>

\* PsoParticle in both processes, on the same random numbers
TwinPsoParticle ==
  /\ run.engine = "pso"
  /\ run.pc = "loop"
  /\ run.iter < run.max_iter
  /\ \E r1 \in TwinBufs(model.dim), r2 \in TwinBufs(model.dim) :
       \E r \in {[p \in 1..2 |-> PsoStep(ProcModel(p), PENALTY_ENV, ProcRun(p), r1, r2)]} :
         /\ run' = r[1]
         /\ twin' = [twin EXCEPT !.run = r[2]]
  /\ UNCHANGED <<model, PENALTY_ENV, OPTICA_PENALTY, x, out>>

\* PsoReturn in both processes
TwinPsoReturn ==
  /\ run.engine = "pso"
  /\ run.pc = "loop"
  /\ run.iter = run.max_iter
  /\ run' = PsoFinish(run)
  /\ twin' = [twin EXCEPT !.run = PsoFinish(twin.run)]
  /\ UNCHANGED <<model, PENALTY_ENV, OPTICA_PENALTY, x, out>>

NextTwin ==
  \/ TwinDeInitialize \/ TwinDeMember \/ TwinDeReturn
  \/ TwinPsoInitialize \/ TwinPsoParticle \/ TwinPsoReturn

SpecTwin == InitTwin /\ [][NextTwin]_vars

\* ------------------------------- the penalty coefficient, read by threads

\* the most calls of penalty_coeff that are followed
MaxCalls == 3

\* the texts the environment variable OPTICA_PENALTY takes
EnvTexts == PenaltyTexts \cup {SomeS(<<"2">>)}

\* the threads of the process: the worker threads of de_parallel
Threads == 1..MaxThreads

\* no thread is inside get_or_init, no call has returned
InitCoeff ==
  /\ model = Model_new
  /\ x = <<>>
  /\ twin = NoTwin
  /\ out = Idle
  /\ PENALTY_ENV = NoneV
  /\ OPTICA_PENALTY \in EnvTexts
  /\ run = [engine |-> "penalty_coeff", pc |-> "calls", init |-> 0, read |-> NoneS,
            rets |-> <<>>]

\* the process changes its environment variable (std::env::set_var)
SetEnv ==
  /\ run.pc = "calls"
  /\ \E t \in EnvTexts \ {OPTICA_PENALTY} : OPTICA_PENALTY' = t
  /\ UNCHANGED <<twin, model, PENALTY_ENV, x, out, run>>

\* PENALTY_ENV.get_or_init on thread t, the cell being set: the value is returned
CoeffGet(t) ==
  /\ run.pc = "calls"
  /\ Len(run.rets) < MaxCalls
  /\ PENALTY_ENV # NoneV
  /\ run' = [run EXCEPT !.rets = Append(@, [t |-> t, r |-> penalty_coeff(PENALTY_ENV, OPTICA_PENALTY)])]
  /\ UNCHANGED <<twin, model, PENALTY_ENV, OPTICA_PENALTY, x, out>>

\* PENALTY_ENV.get_or_init on thread t, the cell being unset and no thread
\* initializing (a thread that finds another one initializing waits): t becomes
\* the one thread that runs the closure
CoeffEnter(t) ==
  /\ run.pc = "calls"
  /\ Len(run.rets) < MaxCalls
  /\ PENALTY_ENV = NoneV
  /\ run.init = 0
  /\ run' = [run EXCEPT !.init = t]
  /\ UNCHANGED <<twin, model, PENALTY_ENV, OPTICA_PENALTY, x, out>>

\* the closure on the initializing thread: the variable is read and parsed, the
\* cell is set, the call returns
CoeffInit(t) ==
  /\ run.pc = "calls"
  /\ run.init = t
  /\ PENALTY_ENV' = penalty_coeff(PENALTY_ENV, OPTICA_PENALTY)
  /\ run' = [run EXCEPT !.init = 0, !.read = OPTICA_PENALTY,
                        !.rets = Append(@, [t |-> t, r |-> PENALTY_ENV'])]
  /\ UNCHANGED <<twin, model, OPTICA_PENALTY, x, out>>

NextCoeff ==
  \/ SetEnv
  \/ \E t \in Threads : CoeffGet(t)
  \/ \E t \in Threads : CoeffEnter(t)
  \/ \E t \in Threads : CoeffInit(t)

SpecCoeff == InitCoeff /\ [][NextCoeff]_vars

\* ------------------------------------------ the engines, called

\* the calls: de and hybrid with a thread count, pso, and de_parallel on its own
\* with a thread count; hybrid halves its budget
InitSolve ==
  /\ model \in SolveModels
  /\ OPTICA_PENALTY = NoneS
  /\ PENALTY_ENV = NoneV
  /\ x = <<>>
  /\ out = Idle
  /\ twin = NoTwin
  /\ \E call \in {"de", "de_parallel", "pso", "hybrid"}, threads \in 1..MaxThreads :
       \E max_iter \in 0..(IF call = "hybrid" THEN 2 * MaxIter ELSE MaxIter) :
         /\ call = "pso" => threads = 1
         /\ run = [engine |-> "solve", call |-> call, max_iter |-> max_iter,
                   threads |-> threads,
                   pc |-> IF call = "pso" THEN "pso_call" ELSE "de_call",
                   de |-> <<>>, joined |-> <<>>, r1 |-> NoneV, sub |-> model,
                   sw |-> [rng |-> Rng_new(PsoSeed), run |-> NoRun], ret |-> NoneV]

\* the budget the phases of the call get: hybrid passes max_iter / 2
Budget == IF run.call = "hybrid" THEN run.max_iter \div 2 ELSE run.max_iter

\* de is entered (solve_cp gives None in a build without cp-sat) and de_single
\* starts on the calling thread or de_parallel spawns its threads; or de_parallel is
\* entered itself
CallDe ==
  /\ run.engine = "solve"
  /\ run.pc = "de_call"
  /\ run' = [run EXCEPT
               !.pc = "de_run",
               !.de = DeWorkers(model, Budget, run.threads,
                                run.call # "de_parallel"
                                /\ DeIsSingle(model, Budget, run.threads))]
  /\ UNCHANGED <<twin, model, PENALTY_ENV, OPTICA_PENALTY, x, out>>

\* worker t: Rng::new, Population::new and initialize, find_best, the first best_fit
WorkerInitialize(t) ==
  /\ run.engine = "solve"
  /\ run.pc = "de_run"
  /\ t \in DOMAIN run.de
  /\ run.de[t].run.pc = "start"
  /\ PENALTY_ENV' = penalty_coeff(PENALTY_ENV, OPTICA_PENALTY)
  /\ run' = [run EXCEPT !.de[t] = DeBegin(model, PENALTY_ENV', @.run.engine, @.run.max_iter,
                                          @.run.size, t - 1)]
  /\ UNCHANGED <<twin, model, OPTICA_PENALTY, x, out>>

\* worker t drawing from the PRNG of the first island
WorkerMember_SharedRng(t) ==
  /\ run.engine = "solve"
  /\ run.pc = "de_run"
  /\ t \in DOMAIN run.de
  /\ run.de[t].run.pc = "loop"
  /\ run.de[t].run.iter < run.de[t].run.max_iter
  /\ LET w == DeAdvance(model, PENALTY_ENV, [rng |-> run.de[1].rng, run |-> run.de[t].run])
     IN run' = [run EXCEPT !.de[t].run = w.run, !.de[1].rng = w.rng]
  /\ UNCHANGED <<twin, model, PENALTY_ENV, OPTICA_PENALTY, x, out>>

\* worker t: the body of its inner loop once
WorkerMember(t) ==
  /\ run.engine = "solve"
  /\ run.pc = "de_run"
  /\ t \in DOMAIN run.de
  /\ run.de[t].run.pc = "loop"
  /\ run.de[t].run.iter < run.de[t].run.max_iter
  /\ run' = [run EXCEPT !.de[t] = DeAdvance(model, PENALTY_ENV, @)]
  /\ UNCHANGED <<twin, model, PENALTY_ENV, OPTICA_PENALTY, x, out>>

\* worker t: its loops are over
WorkerReturn(t) ==
  /\ run.engine = "solve"
  /\ run.pc = "de_run"
  /\ t \in DOMAIN run.de
  /\ run.de[t].run.pc = "loop"
  /\ run.de[t].run.iter = run.de[t].run.max_iter
  /\ run' = [run EXCEPT !.de[t] = [rng |-> @.rng, run |-> DeFinish(@.run)]]
  /\ UNCHANGED <<twin, model, PENALTY_ENV, OPTICA_PENALTY, x, out>>

\* de_parallel: h.join().unwrap() on the next handle, whose thread has returned
JoinHandle ==
  /\ run.engine = "solve"
  /\ run.pc = "de_run"
  /\ Len(run.joined) < Len(run.de)
  /\ run.de[Len(run.joined) + 1].run.engine = "de_island"
  /\ run.de[Len(run.joined) + 1].run.pc = "done"
  /\ run' = [run EXCEPT !.joined = Append(@, run.de[Len(run.joined) + 1].run.ret)]
  /\ UNCHANGED <<twin, model, PENALTY_ENV, OPTICA_PENALTY, x, out>>

\* what de returns: the triple of de_single, or the reduction of the joined pairs
DeTriple ==
  IF run.de[1].run.engine = "de_single" THEN run.de[1].run.ret
  ELSE DeParallelResult(run.joined, Budget)

\* de returns: to the caller of de, or into phase 2 of hybrid
DeReturns ==
  /\ run.engine = "solve"
  /\ run.pc = "de_run"
  /\ \/ run.de[1].run.engine = "de_single" /\ run.de[1].run.pc = "done"
     \/ run.de[1].run.engine = "de_island" /\ Len(run.joined) = Len(run.de)
  /\ run' = IF run.call \in {"de", "de_parallel"}
            THEN [run EXCEPT !.pc = "done", !.ret = DeTriple]
            ELSE [run EXCEPT !.pc = "pso_call", !.r1 = DeTriple,
                             !.sub = HybridSubModel(model, DeTriple.x)]
  /\ UNCHANGED <<twin, model, PENALTY_ENV, OPTICA_PENALTY, x, out>>

\* pso is entered, on the model or on the sub-model of hybrid: Rng::new, v_max,
\* Swarm::new and initialize, pbest_fit, find_global_best, gbest_fit
CallPso ==
  /\ run.engine = "solve"
  /\ run.pc = "pso_call"
  /\ PENALTY_ENV' = penalty_coeff(PENALTY_ENV, OPTICA_PENALTY)
  /\ run' = [run EXCEPT !.pc = "pso_run", !.sw = PsoBegin(run.sub, PENALTY_ENV', Budget)]
  /\ UNCHANGED <<twin, model, OPTICA_PENALTY, x, out>>

\* pso: the body of its inner loop once
SwarmParticle ==
  /\ run.engine = "solve"
  /\ run.pc = "pso_run"
  /\ run.sw.run.pc = "loop"
  /\ run.sw.run.iter < run.sw.run.max_iter
  /\ run' = [run EXCEPT !.sw = PsoAdvance(run.sub, PENALTY_ENV, @)]
  /\ UNCHANGED <<twin, model, PENALTY_ENV, OPTICA_PENALTY, x, out>>

\* pso: its loops are over
SwarmReturn ==
  /\ run.engine = "solve"
  /\ run.pc = "pso_run"
  /\ run.sw.run.pc = "loop"
  /\ run.sw.run.iter = run.sw.run.max_iter
  /\ run' = [run EXCEPT !.sw = [rng |-> @.rng, run |-> PsoFinish(@.run)]]
  /\ UNCHANGED <<twin, model, PENALTY_ENV, OPTICA_PENALTY, x, out>>

\* pso returns: to the caller of pso, or to hybrid, which returns the better phase
PsoReturns ==
  /\ run.engine = "solve"
  /\ run.pc = "pso_run"
  /\ run.sw.run.pc = "done"
  /\ run' = [run EXCEPT !.pc = "done",
                        !.ret = IF run.call = "pso" THEN run.sw.run.ret
                                ELSE HybridResult(run.r1, run.sw.run.ret, run.max_iter)]
  /\ UNCHANGED <<twin, model, PENALTY_ENV, OPTICA_PENALTY, x, out>>

\* a panic reaches the caller: on the calling thread, or from the join of a thread
\* that panicked
CallPanics ==
  /\ run.engine = "solve"
  /\ \/ /\ run.pc = "de_run"
        /\ Len(run.joined) < Len(run.de)
        /\ run.de[Len(run.joined) + 1].run.pc = "panic"
     \/ /\ run.pc = "pso_run"
        /\ run.sw.run.pc = "panic"
  /\ run' = [run EXCEPT !.pc = "panic"]
  /\ UNCHANGED <<twin, model, PENALTY_ENV, OPTICA_PENALTY, x, out>>

NextSolve ==
  \/ CallDe
  \/ \E t \in 1..MaxThreads : WorkerInitialize(t)
  \/ \E t \in 1..MaxThreads : WorkerMember(t)
  \/ \E t \in 1..MaxThreads : WorkerReturn(t)
  \/ JoinHandle
  \/ DeReturns
  \/ CallPso
  \/ SwarmParticle
  \/ SwarmReturn
  \/ PsoReturns
  \/ CallPanics

SpecSolve == InitSolve /\ [][NextSolve]_vars

\* ------------------------------------------ a DE generation, traced

\* de_single on a model of CrossModels for one generation
InitCross ==
  /\ model \in CrossModels
  /\ OPTICA_PENALTY = NoneS
  /\ PENALTY_ENV = NoneV
  /\ x = <<>>
  /\ out = Idle
  /\ twin = NoTwin
  /\ run = [engine |-> "de_single", pc |-> "start", max_iter |-> 1, size |-> POP_SIZE]

\* the body of "for i in 0..POP_SIZE" once, as DeMember; out keeps the arguments of
\* de_crossover and the trial it wrote
CrossMember ==
  /\ run.engine = "de_single"
  /\ run.pc = "loop"
  /\ run.iter < run.max_iter
  /\ \E par \in ParentChoices(run.size, run.i), j_rand \in RngUsize(model.dim),
        rnd_cr \in RandBufs(model.dim) :
       /\ run' = DeStep(model, PENALTY_ENV, run, par, j_rand, rnd_cr)
       /\ out' = [op |-> "de_crossover", data |-> run.data, i |-> run.i,
                  r1 |-> par.r1, r2 |-> par.r2, j_rand |-> j_rand, best |-> run.best,
                  rnd_cr |-> rnd_cr,
                  r |-> de_crossover(run.data, run.i, par.r1, par.r2, j_rand, run.best,
                                     rnd_cr, model.lb, model.ub)]
  /\ UNCHANGED <<twin, model, PENALTY_ENV, OPTICA_PENALTY, x>>

NextCross == DeInitialize \/ CrossMember \/ DeReturn

SpecCross == InitCross /\ [][NextCross]_vars

\* ------------------------------------------ select_parents, called

\* the largest population the parents are selected from
MaxSize == 5

\* the number of seeds, and of draws made before the call
MaxSeeds == 6

MaxPrior == 6

\* a generator of a DE worker after some draws, a population of size >= 3, a member
\* i of it, the dimension of the model
InitParents ==
  /\ model = Model_new
  /\ OPTICA_PENALTY = NoneS
  /\ PENALTY_ENV = NoneV
  /\ x = <<>>
  /\ out = Idle
  /\ twin = NoTwin
  /\ \E t \in 0..(MaxSeeds - 1), k \in 0..MaxPrior, size \in 3..MaxSize, dim \in 1..2 :
       \E i \in 0..(size - 1) :
         run = [engine |-> "select_parents", pc |-> "call",
                rng |-> Draws(Rng_new(DeSeed(t)), k).rng, size |-> size, i |-> i,
                dim |-> dim]

\* pop.select_parents(&mut rng, i)
CallSelectParents ==
  /\ run.engine = "select_parents"
  /\ run.pc = "call"
  /\ run' = [run EXCEPT !.pc = "done"]
  /\ out' = [op |-> "select_parents", r |-> Population_select_parents(run.rng, run.size, run.i)]
  /\ UNCHANGED <<twin, model, PENALTY_ENV, OPTICA_PENALTY, x>>

\* the draws of member i in one generation: select_parents, j_rand, fill_f64(rnd_cr)
CallMemberDraws ==
  /\ run.engine = "select_parents"
  /\ run.pc = "call"
  /\ run' = [run EXCEPT !.pc = "done"]
  /\ out' = [op |-> "member", r |-> MemberDraws(run.rng, run.size, run.i, run.dim)]
  /\ UNCHANGED <<twin, model, PENALTY_ENV, OPTICA_PENALTY, x>>

NextParents == CallSelectParents \/ CallMemberDraws

SpecParents == InitParents /\ [][NextParents]_vars

\* ------------------------------------------ cmd_solve, the source text

\* the longest list of declarations drawn
MaxDecls == 2

\* the declarations a source text is drawn from
DeclLines ==
  {<<"v", "a", "r", " ", "x", " ", ">", "=", " ", "0", " ", "<", "=", " ", "1", "0", ";">>, <<"v", "a", "r", " ", "x", " ", ">", "=", " ", "5", " ", "<", "=", " ", "1", ";">>, <<"v", "a", "r", " ", "y", " ", ">", "=", " ", "2", "0", "0", "0">>, <<"v", "a", "r", " ", "y", " ", "b", "i", "n", "a", "r", "y">>,
   <<"v", "a", "r", " ", "z", "[", "1", ".", ".", "2", "]", " ", ">", "=", " ", "1", " ", "<", "=", " ", "3", " ", "i", "n", "t", ";">>, <<"s", "t", "a", "t", "e", " ", "s", " ", "i", "n", " ", "0", ".", ".", "5", " ", "i", "n", "t", ";">>, <<"d", "e", "c", "i", "s", "i", "o", "n", " ", "d", " ", "i", "n", " ", "5", ".", ".", "1", ";">>,
   <<"v", "a", "r", " ", "w", " ", "<", "=", " ", "-", "1">>}

\* an objectives block with two objectives
TwoObjectives == <<<<"o", "b", "j", "e", "c", "t", "i", "v", "e", "s", ":">>, <<" ", " ", "m", "i", "n", "i", "m", "i", "z", "e", " ", "f", "1", ":", " ", "x">>, <<" ", " ", "m", "i", "n", "i", "m", "i", "z", "e", " ", "f", "2", ":", " ", "y">>>>

EpsilonLines ==
  <<<<" ", " ", "p", "a", "r", "e", "t", "o", " ", "m", "e", "t", "h", "o", "d", ":", " ", "e", "p", "s", "i", "l", "o", "n", "_", "c", "o", "n", "s", "t", "r", "a", "i", "n", "t">>, <<" ", " ", "p", "r", "i", "m", "a", "r", "y", ":", " ", "f", "1">>, <<" ", " ", "e", "p", "s", "i", "l", "o", "n", ":">>, <<" ", " ", "f", "2", " ", "<", "=", " ", "5">>>>

WeightLines ==
  <<<<" ", " ", "p", "a", "r", "e", "t", "o", " ", "m", "e", "t", "h", "o", "d", ":", " ", "w", "e", "i", "g", "h", "t", "e", "d", "_", "s", "u", "m">>, <<" ", " ", "w", "e", "i", "g", "h", "t", " ", "f", "1", ":", " ", "2">>, <<" ", " ", "w", "e", "i", "g", "h", "t", " ", "f", "2", ":", " ", "0", ".", "5">>>>

SubjectTo == <<<<"s", "u", "b", "j", "e", "c", "t", " ", "t", "o">>, <<" ", " ", "c", "1", ":", " ", "x", " ", "+", " ", "y", " ", ">", "=", " ", "1", ";">>>>

\* what the blocks above declare
EpsilonDeclared == Epsilon(<<"f", "1">>, <<[name |-> <<"f", "2">>, op |-> "Le", rhs |-> FromInt(5)]>>)

WeightsDeclared ==
  WeightedSum(<<[name |-> <<"f", "1">>, w |-> FromInt(2)], [name |-> <<"f", "2">>, w |-> Dec(5, 1)]>>)

\* a constraint whose right-hand side is the scalar parameter cap
CapConstraint == <<<<"s", "u", "b", "j", "e", "c", "t", " ", "t", "o">>, <<" ", " ", "c", "1", ":", " ", "x", " ", "<", "=", " ", "c", "a", "p", ";">>>>

\* no sidecar file, and the sidecar files drawn: a scalar number, a nested object
NoJson == [exists |-> FALSE, obj |-> <<>>]

CapJson ==
  [exists |-> TRUE, obj |-> <<[name |-> <<"c", "a", "p">>, kind |-> "Number", num |-> FromInt(7),
                              map |-> EmptyMap]>>]

CostJson ==
  [exists |-> TRUE, obj |-> <<[name |-> <<"c", "o", "s", "t">>, kind |-> "Object", num |-> Zero,
                              map |-> (<<"a">> :> FromInt(3))]>>]

\* the rest of a source text after its declarations: its lines, the pareto its
\* objectives block declares, the parameter its constraint names, the sidecar file
Rest(lines, declared, rhs_param, json) ==
  [lines |-> lines, declared |-> declared, rhs_param |-> rhs_param, json |-> json]

Rests ==
  {Rest(<<>>, Single, NoneS, NoJson),
   Rest(<<>>, Single, NoneS, CostJson),
   Rest(<<<<"m", "i", "n", "i", "m", "i", "z", "e", ":", " ", "x">>>> \o SubjectTo, Single, NoneS, NoJson),
   Rest(<<<<"p", "a", "r", "a", "m", " ", "c", "a", "p", " ", "=", " ", "7", ";">>>> \o CapConstraint, Single, SomeS(<<"c", "a", "p">>), NoJson),
   Rest(<<<<"d", "a", "t", "a", ":">>, <<"c", "a", "p", " ", "=", " ", "7">>>> \o CapConstraint, Single, SomeS(<<"c", "a", "p">>), NoJson),
   Rest(CapConstraint \o <<<<"d", "a", "t", "a", ":">>, <<"c", "a", "p", " ", "=", " ", "7">>>>, Single, SomeS(<<"c", "a", "p">>), NoJson),
   Rest(CapConstraint, Single, SomeS(<<"c", "a", "p">>), CapJson),
   Rest(<<<<"p", "a", "r", "a", "m", " ", "c", "a", "p", " ", "=", " ", "7", ";">>>> \o CapConstraint, Single, SomeS(<<"c", "a", "p">>), CapJson),
   Rest(TwoObjectives \o EpsilonLines \o SubjectTo, EpsilonDeclared, NoneS, NoJson),
   Rest(TwoObjectives \o EpsilonLines, EpsilonDeclared, NoneS, NoJson),
   Rest(TwoObjectives \o WeightLines \o SubjectTo, WeightsDeclared, NoneS, NoJson),
   Rest(TwoObjectives \o WeightLines, WeightsDeclared, NoneS, NoJson),
   Rest(<<<<"s", "u", "b", "j", "e", "c", "t", " ", "t", "o">>, <<" ", " ", "n", "o", "_", "o", "v", "e", "r", "l", "a", "p", "(", "x", ",", " ", "y", ")", ";">>>>, Single, NoneS, NoJson)}

\* load_json_into, one member of the top-level object
JsonMember(params, mem) ==
  LET entry == EntryOrDefault(params, mem.name)
  IN MapInsert(params, mem.name,
               IF mem.kind = "Number" THEN MapInsert(entry, <<"_">>, mem.num)
               ELSE IF mem.kind = "Object" THEN mem.map @@ entry
               ELSE entry)

\* load_json_into on the parsed top-level object
RECURSIVE load_json_into(_, _)
load_json_into(params, obj) ==
  IF obj = <<>> THEN params ELSE load_json_into(JsonMember(params, Head(obj)), Tail(obj))

\* cmd_solve is entered with the file read: the lines of the source, the sidecar
InitParse ==
  /\ model = Model_new
  /\ OPTICA_PENALTY = NoneS
  /\ PENALTY_ENV = NoneV
  /\ x = <<>>
  /\ out = Idle
  /\ twin = NoTwin
  /\ \E decls \in SeqsUpTo(DeclLines, MaxDecls), rest \in Rests :
       run = [engine |-> "cmd_solve", pc |-> "parse", source |-> decls \o rest.lines,
              decls |-> decls, declared |-> rest.declared, rhs_param |-> rest.rhs_param,
              json |-> rest.json]

\* cmd_solve, let mut model = parse(&source): a Model, or the process panics
CallParse ==
  /\ run.engine = "cmd_solve"
  /\ run.pc = "parse"
  /\ \E order \in Orders(ParseLines(ParseStart, run.source).m.var_names) :
       LET r == parse(run.source, order)
       IN /\ model' = r.m
          /\ run' = [run EXCEPT !.pc = IF r.panic THEN "panic" ELSE "json"]
          /\ out' = [op |-> "parse", r |-> Zero]
  /\ UNCHANGED <<twin, PENALTY_ENV, OPTICA_PENALTY, x>>

\* cmd_solve, the sidecar JSON is loaded into the model if the file exists
LoadJson ==
  /\ run.engine = "cmd_solve"
  /\ run.pc = "json"
  /\ model' = IF run.json.exists
              THEN [model EXCEPT !.params = load_json_into(@, run.json.obj)]
              ELSE model
  /\ run' = [run EXCEPT !.pc = "dim"]
  /\ UNCHANGED <<twin, PENALTY_ENV, OPTICA_PENALTY, x, out>>

\* cmd_solve, if model.dim == 0 { eprintln!("error: no variables"); exit(1) }
CheckDim ==
  /\ run.engine = "cmd_solve"
  /\ run.pc = "dim"
  /\ run' = [run EXCEPT !.pc = IF model.dim = 0 THEN "fatal" ELSE "solve"]
  /\ UNCHANGED <<twin, model, PENALTY_ENV, OPTICA_PENALTY, x, out>>

\* the candidates the engines hand to check_constraints: every variable at v
ParseCandidates(dim) == {[j \in 1..dim |-> v] : v \in {Zero, FromInt(5), FromInt(8)}}

\* the model is solved: model.check_constraints(x) on a candidate
SolveCheckConstraints ==
  /\ run.engine = "cmd_solve"
  /\ run.pc = "solve"
  /\ \E c \in ParseCandidates(model.dim) :
       /\ x' = c
       /\ out' = [op |-> "check_constraints", r |-> check_constraints(model, c)]
  /\ run' = [run EXCEPT !.pc = "done"]
  /\ UNCHANGED <<twin, model, PENALTY_ENV, OPTICA_PENALTY>>

NextParse == CallParse \/ LoadJson \/ CheckDim \/ SolveCheckConstraints

SpecParse == InitParse /\ [][NextParse]_vars

\* ------------------------------------------ main, the command line

\* the longest list of options drawn
MaxOpts == 3

\* the largest number num_cpus() returns
MaxCpus == 2

\* an option as it is written, the field of Args it sets, and the text or the
\* number it sets it to
Opt(tokens, field, s, n) == [tokens |-> tokens, field |-> field, s |-> s, n |-> n]

Opts ==
  {Opt(<<<<"-", "m">>, <<"d", "e">>>>, "method", <<"d", "e">>, 0), Opt(<<<<"-", "-", "m", "e", "t", "h", "o", "d">>, <<"p", "s", "o">>>>, "method", <<"p", "s", "o">>, 0),
   Opt(<<<<"-", "i">>, <<"5">>>>, "max_iter", <<>>, 5), Opt(<<<<"-", "-", "i", "t", "e", "r">>, <<"7">>>>, "max_iter", <<>>, 7),
   Opt(<<<<"-", "t">>, <<"2">>>>, "threads", <<>>, 2), Opt(<<<<"-", "-", "t", "h", "r", "e", "a", "d", "s">>, <<"3">>>>, "threads", <<>>, 3),
   Opt(<<<<"-", "v">>>>, "verbose", <<>>, 0), Opt(<<<<"-", "-", "v", "e", "r", "b", "o", "s", "e">>>>, "verbose", <<>>, 0),
   Opt(<<<<"-", "q">>>>, "quiet", <<>>, 0), Opt(<<<<"-", "-", "q", "u", "i", "e", "t">>>>, "quiet", <<>>, 0)}

\* the arguments a list of options is written as
RECURSIVE OptTokens(_)
OptTokens(opts) == IF opts = <<>> THEN <<>> ELSE Head(opts).tokens \o OptTokens(Tail(opts))

\* the file named on the command line
FileArg == <<"m", ".", "o", "p", "t", "i", "c", "a">>

\* the command lines without a file to solve
OtherArgs ==
  {<<>>, <<<<"s", "o", "l", "v", "e">>>>, <<<<"b", "e", "n", "c", "h">>>>, <<<<"b", "e", "n", "c", "h">>, <<"5">>, <<"-", "t">>, <<"2">>>>, <<<<"r", "e", "p", "l">>>>,
   <<<<"-", "-", "v", "e", "r", "s", "i", "o", "n">>>>, <<<<"h", "e", "l", "p">>>>, <<<<"-", "x">>, <<"-", "q">>>>, <<FileArg, <<"-", "m">>>>,
   <<<<"s", "o", "l", "v", "e">>, FileArg, <<"-", "i">>, <<"m", "a", "n", "y">>>>}

\* main is entered: env::args().skip(1) in one of the forms "<file> [OPTIONS]" and
\* "solve <file> [OPTIONS]", or another command line
InitArgs ==
  /\ model = Model_new
  /\ OPTICA_PENALTY = NoneS
  /\ PENALTY_ENV = NoneV
  /\ x = <<>>
  /\ out = Idle
  /\ twin = NoTwin
  /\ \E cpus \in 1..MaxCpus :
       \/ \E opts \in SeqsUpTo(Opts, MaxOpts), form \in {"file", "solve"} :
            run = [engine |-> "main", pc |-> "args", form |-> form, opts |-> opts, cpus |-> cpus,
                   args |-> (IF form = "solve" THEN <<<<"s", "o", "l", "v", "e">>>> ELSE <<>>) \o <<FileArg>>
                            \o OptTokens(opts)]
       \/ \E args \in OtherArgs :
            run = [engine |-> "main", pc |-> "args", form |-> "other", opts |-> <<>>,
                   cpus |-> cpus, args |-> args]

\* main, Args::parse(&args)
CallArgsParse ==
  /\ run.engine = "main"
  /\ run.pc = "args"
  /\ out' = [op |-> "Args::parse", r |-> Args_parse(run.args, run.cpus)]
  /\ run' = [run EXCEPT !.pc = "match"]
  /\ UNCHANGED <<twin, model, PENALTY_ENV, OPTICA_PENALTY, x>>

\* main, exit(1) on Err, else the match on args.command
MainMatch ==
  /\ run.engine = "main"
  /\ run.pc = "match"
  /\ run' = [run EXCEPT !.pc = IF out.r.ok THEN out.r.args.command.kind ELSE "exit"]
  /\ UNCHANGED <<twin, model, PENALTY_ENV, OPTICA_PENALTY, x, out>>

NextArgs == CallArgsParse \/ MainMatch

SpecArgs == InitArgs /\ [][NextArgs]_vars

\* ------------------------------------------ cmd_solve, the dispatch

\* The largest dim for which any other method string ("auto") runs PSO (20 in
\* solve_heuristic) as the model runs it.
AutoPsoMaxDim == 2

\* "var x[1..n] >= 0 <= 8; minimize x[1]"
WideNames(n) == [k \in 1..n |-> <<"x", "[">> \o IntToStr(k) \o <<"]">>]

WideModel(n) ==
  [Parsed(WideNames(n), Ident(n)) EXCEPT
     !.ub = [k \in 1..n |-> FromInt(8)], !.objective_expr = SomeS(<<"x", "[", "1", "]">>)]

\* two tasks under no_overlap, "minimize end[b]"
TasksModel ==
  [Parsed(TaskNames2, Ident(4)) EXCEPT
     !.ub = [k \in 1..4 |-> FromInt(8)], !.objective_expr = SomeS(<<"e", "n", "d", "[", "b", "]">>),
     !.cp_globals = <<CpLineNoOverlap>>]

\* the models cmd_solve holds after parse and the sidecar: a text without
\* declarations (dim = 0), one with a constraint only, one and two variables, one
\* variable more than AutoPsoMaxDim, CP global constraints, bounds that cross
EntryModels ==
  {Model_new, [Model_new EXCEPT !.constraints = <<Con(<<"x">>, "Le", FromInt(1))>>],
   EarlyModel, EdgeModel, WideModel(AutoPsoMaxDim + 1), TasksModel, CrossedModel}

\* the method strings -m is given: the documented ones, and others
Methods == {<<"d", "e">>, <<"p", "s", "o">>, <<"h", "y", "b", "r", "i", "d">>, <<"a", "u", "t", "o">>, <<"D", "E">>, <<>>}

\* solve_cp in the build without the feature cp-sat
solve_cp(m) == NoneV

\* solve_cp_entry
solve_cp_entry(m, max_iter, threads) == solve_cp(m)

\* solve_heuristic: the engine the match on args.method calls
solve_heuristic(method, dim) ==
  IF method = <<"d", "e">> THEN "de"
  ELSE IF method = <<"p", "s", "o">> THEN "pso"
  ELSE IF method = <<"h", "y", "b", "r", "i", "d">> THEN "hybrid"
  ELSE IF dim <= AutoPsoMaxDim THEN "pso"
  ELSE "de"

\* cmd_solve holds the model of the file, the sidecar loaded, and the Args
InitEntry ==
  /\ model \in EntryModels
  /\ OPTICA_PENALTY = NoneS
  /\ PENALTY_ENV = NoneV
  /\ x = <<>>
  /\ out = Idle
  /\ twin = NoTwin
  /\ \E method \in Methods, max_iter \in 0..MaxIter, threads \in 1..MaxThreads :
       run = [engine |-> "cmd_solve", pc |-> "dim", method |-> method, max_iter |-> max_iter,
              threads |-> threads]

\* cmd_solve, from has_cp to the call of an engine: solve_cp_entry if the model has
\* CP global constraints, and solve_heuristic when it is not called or gives None
SolveDispatch ==
  /\ run.engine = "cmd_solve"
  /\ run.pc = "solve"
  /\ LET has_cp == model.cp_globals # <<>>
         res == IF has_cp THEN solve_cp_entry(model, run.max_iter, run.threads) ELSE NoneV
         call == solve_heuristic(run.method, model.dim)
     IN run' = IF has_cp /\ res # NoneV
               THEN [engine |-> "solve", call |-> "cp", method |-> run.method,
                     max_iter |-> run.max_iter, threads |-> run.threads, pc |-> "done",
                     de |-> <<>>, joined |-> <<>>, r1 |-> NoneV, sub |-> model,
                     sw |-> [rng |-> Rng_new(PsoSeed), run |-> NoRun], ret |-> res]
               ELSE [engine |-> "solve", call |-> call, method |-> run.method,
                     max_iter |-> run.max_iter, threads |-> run.threads,
                     pc |-> IF call = "pso" THEN "pso_call" ELSE "de_call",
                     de |-> <<>>, joined |-> <<>>, r1 |-> NoneV, sub |-> model,
                     sw |-> [rng |-> Rng_new(PsoSeed), run |-> NoRun], ret |-> NoneV]
  /\ UNCHANGED <<twin, model, PENALTY_ENV, OPTICA_PENALTY, x, out>>

NextEntry == CheckDim \/ SolveDispatch \/ NextSolve

SpecEntry == InitEntry /\ [][NextEntry]_vars

\* ------------------------------------------------ claims, fitness layer

\* C5: for every candidate within the bounds and every constraint list,
\* check_constraints returns a total violation >= 0, and feasible is true exactly
\* when the total violation is <= 1e-9.
C5_FeasibleIffWithinTolerance ==
  out.op = "check_constraints" =>
    /\ FGe(out.r.total, Zero)
    /\ out.r.feasible <=> FLe(out.r.total, FeasEps)

\* two constraints, each missed by 2^-30: together more than the tolerance, and the
\* call reports feasible
C5_Witness ==
  /\ out.op = "check_constraints"
  /\ Len(model.constraints) = 2
  /\ model.constraints[1].expr # model.constraints[2].expr
  /\ x = <<Tiny, Tiny>>
  /\ \A k \in 1..2 : model.constraints[k].op = "Le"
  /\ out.r.feasible

\* the per-constraint violation as the claim words it
ClaimViolation(c, lhs) ==
  IF c.op = "Le" THEN (IF FGt(lhs, c.rhs) THEN FSub(lhs, c.rhs) ELSE Zero)
  ELSE IF c.op = "Ge" THEN (IF FGt(c.rhs, lhs) THEN FSub(c.rhs, lhs) ELSE Zero)
  ELSE (IF FGe(lhs, c.rhs) THEN FSub(lhs, c.rhs) ELSE FSub(c.rhs, lhs))

ClaimViolations(m, cand) ==
  [k \in 1..Len(m.constraints) |->
     ClaimViolation(m.constraints[k], evaluate_expr(m, m.constraints[k].expr, cand, EmptyEnv))]

\* v[1] + ... + v[n], left to right
SumSeq(v) ==
  LET acc[k \in 0..Len(v)] == IF k = 0 THEN Zero ELSE FAdd(acc[k - 1], v[k])
  IN acc[Len(v)]

\* C6 as amended: the total violation is the unweighted sum, over the constraints, of
\* those per-constraint violations that exceed 1e-9; a violation within the tolerance
\* counts as 0.
C6_SumOfViolationsAboveTolerance ==
  out.op = "check_constraints" =>
    out.r.total = SumSeq([k \in 1..Len(model.constraints) |->
                            IF FGt(ClaimViolations(model, x)[k], FeasEps)
                            THEN ClaimViolations(model, x)[k] ELSE Zero])

\* C6 as stated: the total violation is the unweighted sum of all per-constraint
\* violations.
C6_SumOfAllViolations ==
  out.op = "check_constraints" => out.r.total = SumSeq(ClaimViolations(model, x))

\* one constraint missed by less than the tolerance next to one missed by more
C6_Witness ==
  /\ out.op = "check_constraints"
  /\ \E k \in 1..Len(model.constraints) :
       /\ FGt(ClaimViolations(model, x)[k], Zero)
       /\ FLe(ClaimViolations(model, x)[k], FeasEps)
  /\ \E k \in 1..Len(model.constraints) : FGt(ClaimViolations(model, x)[k], FeasEps)
  /\ FGt(out.r.total, Zero)

\* C7: for every model whose pareto method is Single, with an empty objectives list
\* or not, compute_fitness(x) = s * evaluate_objective(x)
\* + (algebraic violation + cp penalty) * P, s = -1 when model.maximize is set.
C7_SingleFitnessFormula ==
  (out.op = "compute_fitness" /\ model.pareto.kind = "Single") =>
    out.r = FAdd(IF model.maximize THEN FNeg(evaluate_objective(model, x))
                 ELSE evaluate_objective(model, x),
                 FMul(FAdd(check_constraints(model, x).total, compute_cp_penalty(model, x)),
                      PENALTY_ENV))

\* the intervals of the tasks in declaration order, as the claim collects them
ClaimTasks(m) == {k \in 1..Len(m.var_names) : StartsWith(m.var_names[k], <<"s", "t", "a", "r", "t", "[">>)}

ClaimEnd(m, cand, k) ==
  LET suffix == SliceFrom(m.var_names[k], 6)
      ends   == {j \in 1..Len(m.var_names) : m.var_names[j] = <<"e", "n", "d", "[">> \o suffix}
      durs   == {j \in 1..Len(m.var_names) : m.var_names[j] = <<"d", "u", "r", "a", "t", "i", "o", "n", "[">> \o suffix}
  IN IF ends # {} THEN cand[CHOOSE j \in ends : TRUE]
     ELSE FAdd(cand[k], cand[CHOOSE j \in durs : TRUE])

ClaimCollected(m, cand) == {k \in ClaimTasks(m) : FGt(ClaimEnd(m, cand, k), cand[k])}

ClaimOverlap(m, cand, i, j) ==
  FSub(FMin(ClaimEnd(m, cand, i), ClaimEnd(m, cand, j)), FMax(cand[i], cand[j]))

\* C8: the no_overlap / disjunctive penalty is 0 exactly when no two collected
\* intervals overlap on a set of positive length, and its value does not depend on
\* the order in which the variables are enumerated.
C8_NoOverlapOrderIndependent ==
  (out.op = "compute_cp_penalty" /\ model.var_names \in {EndNames3, DurNames3}) =>
    /\ out.r = Zero <=>
         \A i, j \in ClaimCollected(model, x) :
           i < j => ~FGt(ClaimOverlap(model, x, i, j), Zero)
    /\ \A o \in BlockOrders(3) :
         compute_cp_penalty([model EXCEPT !.var_map = BuildVarMap(model.var_names, o)], x)
           = out.r

\* C9: the cumulative penalty is 0 exactly when at every time point demand times the
\* number of collected intervals [start, start + duration) active there is <=
\* capacity, demand and capacity being the first two numbers of the annotation line.
C9_CumulativeZeroIffWithinCapacity ==
  (out.op = "compute_cp_penalty" /\ model.var_names = DurNames2
     /\ Len(LineNums(model.cp_globals[1])) >= 2) =>
    LET demand    == LineNums(model.cp_globals[1])[1]
        capacity  == LineNums(model.cp_globals[1])[2]
        collected == {k \in ClaimTasks(model) : FGt(x[k + 1], Zero)}
        points    == {x[k] : k \in collected} \cup {FAdd(x[k], x[k + 1]) : k \in collected}
        active(t) == {k \in collected : FLe(x[k], t) /\ FLt(t, FAdd(x[k], x[k + 1]))}
    IN out.r = Zero <=>
         \A t \in points : FLe(FMul(demand, FromInt(Cardinality(active(t)))), capacity)

\* ------------------------------------------------------ claims, DE run

\* the rows Population::initialize can draw for model m
SampledRows(m) ==
  {[j \in 1..m.dim |-> FAdd(m.lb[j], FMul(r[j], FSub(m.ub[j], m.lb[j])))] :
     r \in RandBufs(m.dim)}

\* the DE run stands between two generations (or before the first)
DeBetweenGenerations ==
  /\ run.engine \in {"de_single", "de_island"}
  /\ run.pc = "loop"
  /\ run.i = 0

\* the DE run stands between two members of a generation
DeInLoop ==
  /\ run.engine \in {"de_single", "de_island"}
  /\ run.pc = "loop"

\* C2: in a DE run, serial or island, fit[i] is the fitness of the assignment in row
\* i, for every i, after the initialization and after every member of every
\* generation, the end of each generation included.
C2_FitMatchesRows ==
  DeInLoop =>
    \A k \in 1..run.size : run.fit[k] = compute_fitness(model, run.data[k], PENALTY_ENV)

\* a generation is over and a trial has replaced a row of the population
C2_Witness ==
  /\ DeBetweenGenerations
  /\ run.iter >= 1
  /\ \E k \in 1..run.size :
       /\ run.data[k] \notin SampledRows(model)
       /\ run.fit[k] = compute_fitness(model, run.data[k], PENALTY_ENV)

\* C3: after every member of every generation, the end of each generation included,
\* best_fit is the minimum of fit over the population and the fitness of the
\* incumbent best; best_fit never increases from one step of the run to the next.
C3_BestFitIsMinimumAndMonotone ==
  /\ [](DeInLoop =>
          /\ \A k \in 1..run.size : FLe(run.best_fit, run.fit[k])
          /\ \E k \in 1..run.size : run.best_fit = run.fit[k]
          /\ run.best_fit = compute_fitness(model, run.best, PENALTY_ENV))
  /\ [][(DeInLoop /\ run'.pc \in {"loop", "done"})
          => FLe(run'.best_fit, run.best_fit)]_vars

\* a generation is over in which a trial became the incumbent: best is no sampled
\* row and is strictly better than some member
C3_Witness ==
  /\ DeBetweenGenerations
  /\ run.iter >= 1
  /\ run.best \notin SampledRows(model)
  /\ \E k \in 1..run.size : FLt(run.best_fit, run.fit[k])
  /\ \E k \in 1..run.size : run.best_fit = run.fit[k]

\* ------------------------------------------------------ claims, PSO run

\* the PSO run stands between two particles of a generation
PsoInLoop ==
  /\ run.engine = "pso"
  /\ run.pc = "loop"

\* C4: in a PSO run pbest_fit[i] is <= the fitness of particle i's current position,
\* for every i, and gbest_fit is the minimum of pbest_fit, after every particle of
\* every generation, the end of each generation included.
C4_PbestBoundsAndGbestMinimum ==
  PsoInLoop =>
    /\ \A k \in 1..N_PARTICLES :
         FLe(run.pbest_fit[k], compute_fitness(model, run.pos[k], PENALTY_ENV))
    /\ \A k \in 1..N_PARTICLES : FLe(run.gbest_fit, run.pbest_fit[k])
    /\ \E k \in 1..N_PARTICLES : run.gbest_fit = run.pbest_fit[k]

\* a generation is over, one particle stands where it is worse than its personal
\* best, and another's personal best is worse than the global best
C4_Witness ==
  /\ PsoInLoop
  /\ run.iter >= 1
  /\ run.i = 0
  /\ \E k \in 1..N_PARTICLES :
       FLt(run.pbest_fit[k], compute_fitness(model, run.pos[k], PENALTY_ENV))
  /\ \E k \in 1..N_PARTICLES : FLt(run.gbest_fit, run.pbest_fit[k])

\* --------------------------------------------- claims, the evaluator

\* C10: evaluate_expr never panics, whatever the expression text, the candidate of
\* length dim and the environment: a malformed expression yields a number.
C10_EvaluateExprNeverPanics ==
  out.op = "evaluate_expr" => out.r # PANIC

\* the value of an operand of a constant expression
ClaimOperand(p) ==
  IF p[1] = "-" THEN FNeg(ParseUnsigned(Tail(p))) ELSE ParseUnsigned(p)

\* direct arithmetic on two values
ClaimApply(o, a, b) ==
  IF o = "+" THEN FAdd(a, b)
  ELSE IF o = "-" THEN FSub(a, b)
  ELSE IF o = "*" THEN FMul(a, b)
  ELSE FDiv(a, b)

\* direct arithmetic on a constant expression: * and / bind tighter than + and -,
\* operators of one level associate to the left
ClaimArith(s) ==
  IF Len(s) = 1 THEN ClaimOperand(s[1])
  ELSE IF Len(s) = 3 THEN ClaimApply(s[2][1], ClaimOperand(s[1]), ClaimOperand(s[3]))
  ELSE IF s[4][1] \in {"*", "/"} /\ s[2][1] \in {"+", "-"}
  THEN ClaimApply(s[2][1], ClaimOperand(s[1]),
                  ClaimApply(s[4][1], ClaimOperand(s[3]), ClaimOperand(s[5])))
  ELSE ClaimApply(s[4][1],
                  ClaimApply(s[2][1], ClaimOperand(s[1]), ClaimOperand(s[3])),
                  ClaimOperand(s[5]))

\* the pieces (operand, operator, operand, ...) of a constant expression text read
\* from position i, or <<>> when the text is not a constant expression
RECURSIVE ClaimPieces(_, _, _, _)
ClaimPieces(e, i, wantOperand, acc) ==
  IF i > Len(e) THEN (IF wantOperand THEN <<>> ELSE acc)
  ELSE IF wantOperand
  THEN IF e[i] = "-" /\ i < Len(e) /\ IsDigit(e[i + 1])
       THEN ClaimPieces(e, i + 2, FALSE, Append(acc, <<"-", e[i + 1]>>))
       ELSE IF IsDigit(e[i]) THEN ClaimPieces(e, i + 1, FALSE, Append(acc, <<e[i]>>))
       ELSE <<>>
  ELSE IF e[i] \in ArithOps THEN ClaimPieces(e, i + 1, TRUE, Append(acc, <<e[i]>>))
       ELSE <<>>

\* the value returned for a constant expression of at most three operands is the
\* value of direct arithmetic
ClaimArithAgrees(s, r) == Len(s) \in {1, 3, 5} => r = ClaimArith(s)

\* C11: evaluate_expr on a constant expression of literals and + - * / (with unary
\* minus, no division by a near-zero value) returns the value of direct arithmetic
\* with * and / binding tighter than + and - and left-to-right association.
C11_ConstantArithmetic ==
  out.op = "evaluate_expr" => ClaimArithAgrees(ClaimPieces(out.expr, 1, TRUE, <<>>), out.r)

\* the two arguments of the call f(a,b) that the text e is, or <<>>
ClaimCallArgs(e, f) ==
  IF StartsWith(e, f \o <<"(">>) /\ EndsWith(e, <<")">>)
  THEN Split(Slice(e, Len(f) + 1, Len(e) - 1), ",")
  ELSE <<>>

\* r is the larger (smaller) of the values of the arguments
ClaimLarger(args, r) ==
  Len(args) = 2 => r = FMax(evaluate_expr(model, args[1], x, out.env),
                            evaluate_expr(model, args[2], x, out.env))

ClaimSmaller(args, r) ==
  Len(args) = 2 => r = FMin(evaluate_expr(model, args[1], x, out.env),
                            evaluate_expr(model, args[2], x, out.env))

\* C12: evaluating max(a,b) returns the larger of the values of a and b, and
\* evaluating min(a,b) returns the smaller.
C12_MaxMinOfTwo ==
  out.op = "evaluate_expr" =>
    /\ ClaimLarger(ClaimCallArgs(out.expr, <<"m", "a", "x">>), out.r)
    /\ ClaimSmaller(ClaimCallArgs(out.expr, <<"m", "i", "n">>), out.r)

\* the text e is one symbol: a name, or a name with index tokens in brackets
ClaimIsSymbol(e) ==
  /\ e # <<>>
  /\ IsLowerLetter(e[1])
  /\ \A k \in 1..Len(e) : IsAlnum(e[k]) \/ e[k] \in {"_", "[", "]", ","}
  /\ (Contains(e, <<"[">>) \/ Contains(e, <<",">>) \/ Contains(e, <<"]">>)) =>
       (e[Len(e)] = "]" /\ Find(e, <<"[">>) >= 1 /\ Find(e, <<"]">>) = Len(e) - 1)

ClaimIsIndexed(e) == ClaimIsSymbol(e) /\ Contains(e, <<"[">>)

\* the name of a symbol
ClaimName(e) == IF Contains(e, <<"[">>) THEN Slice(e, 0, Find(e, <<"[">>)) ELSE e

\* the index tokens of an indexed symbol, each replaced by its env binding if any
ClaimIndexTokens(e, env) ==
  LET raw == Split(Slice(e, Find(e, <<"[">>) + 1, Len(e) - 1), ",")
  IN [k \in 1..Len(raw) |-> IF raw[k] \in DOMAIN env THEN env[raw[k]] ELSE raw[k]]

\* the parameter key of a symbol: the joined index tokens, "_" for a scalar
ClaimParamKey(e, env) ==
  IF Contains(e, <<"[">>) THEN Join(ClaimIndexTokens(e, env), <<",">>) ELSE <<"_">>

\* the variable key of a symbol: name[i1,...,ik], or the name
ClaimVarKey(e, env) ==
  IF Contains(e, <<"[">>)
  THEN ClaimName(e) \o <<"[">> \o ClaimParamKey(e, env) \o <<"]">>
  ELSE e

ClaimHasVar(e, env) == \E k \in 1..Len(model.var_names) : model.var_names[k] = ClaimVarKey(e, env)

ClaimVar(e, env) ==
  x[CHOOSE k \in 1..Len(model.var_names) : model.var_names[k] = ClaimVarKey(e, env)]

ClaimHasParam(e, env) ==
  /\ ClaimName(e) \in DOMAIN model.params
  /\ ClaimParamKey(e, env) \in DOMAIN model.params[ClaimName(e)]

ClaimParam(e, env) == model.params[ClaimName(e)][ClaimParamKey(e, env)]

\* the value of a symbol by the order variable, parameter, env binding, 0
ClaimResolved(e, env) ==
  IF ClaimHasVar(e, env) THEN ClaimVar(e, env)
  ELSE IF ClaimHasParam(e, env) THEN ClaimParam(e, env)
  ELSE IF e \in DOMAIN env /\ ParseF64(env[e]) # NoneV THEN ParseF64(env[e])
  ELSE Zero

\* C13: a symbol, indexed or not, resolves to (1) the decision variable of that
\* name, else (2) the parameter entry of that name (key "_" for a scalar), else
\* (3) the numeric parse of its env binding, else (4) 0.0.
C13_SymbolResolutionOrder ==
  (out.op = "evaluate_expr" /\ ClaimIsSymbol(out.expr)) =>
    out.r = ClaimResolved(out.expr, out.env)

\* C14: for name[i1,...,ik] with k >= 1 index tokens, each token is replaced by its
\* env binding when it has one, the key is composed of all k tokens, and the value
\* of the decision variable, or else of the parameter entry, under that key is
\* returned.
C14_IndexedSymbolByComposedKey ==
  (out.op = "evaluate_expr" /\ ClaimIsIndexed(out.expr)) =>
    /\ ClaimHasVar(out.expr, out.env) => out.r = ClaimVar(out.expr, out.env)
    /\ (~ClaimHasVar(out.expr, out.env) /\ ClaimHasParam(out.expr, out.env)) =>
         out.r = ClaimParam(out.expr, out.env)

\* the text e is a sum with a parenthesized header
ClaimIsSum(e) == StartsWith(e, <<"s", "u", "m", "(">>) /\ Contains(e, <<")">>)

\* the domain a quantifier ranges over: the elements of a set of the model in
\* order, or the integers of the inclusive range a..b
ClaimDomain(d) ==
  IF d \in DOMAIN model.sets THEN model.sets[d]
  ELSE LET dd == Find(d, <<".", ".">>)
           a  == ParseI32Or0(Slice(d, 0, dd))
           b  == ParseI32Or0(SliceFrom(d, dd + 2))
       IN [k \in 1..(IF a > b THEN 0 ELSE b - a + 1) |-> IntToStr(a + k - 1)]

\* the quantifiers "q in S" of the header of a sum, in order
ClaimQuantifiers(e) ==
  LET parts == Split(Slice(e, 4, Find(e, <<")">>)), ",")
  IN [k \in 1..Len(parts) |->
        LET pos == Find(parts[k], <<" ", "i", "n", " ">>)
        IN [name |-> Trim(Slice(parts[k], 0, pos)),
            vals |-> ClaimDomain(Trim(SliceFrom(parts[k], pos + 4)))]]

\* the body of a sum
ClaimBody(e) == Trim(SliceFrom(e, Find(e, <<")">>) + 1))

\* env with the name q bound to v, a binding of q in env being shadowed
ClaimBind(env, q, v) == [n \in (DOMAIN env) \cup {q} |-> IF n = q THEN v ELSE env[n]]

\* the envs of the tuples of the cartesian product of the domains of the
\* quantifiers from the k-th on, in order, each on top of env
RECURSIVE ClaimTuples(_, _, _)
ClaimTuples(qs, k, env) ==
  IF k > Len(qs) THEN <<env>>
  ELSE LET per[n \in 0..Len(qs[k].vals)] ==
             IF n = 0 THEN <<>>
             ELSE per[n - 1] \o ClaimTuples(qs, k + 1, ClaimBind(env, qs[k].name, qs[k].vals[n]))
       IN per[Len(qs[k].vals)]

\* the sum of the values of the body over the tuples
ClaimSumValue(body, tuples) ==
  SumSeq([n \in 1..Len(tuples) |-> evaluate_expr(model, body, x, tuples[n])])

\* C15: the value of sum(q1 in S1, ..., qk in Sk) body is the sum of the values of
\* body over every tuple of the cartesian product of the domains (a set's elements
\* in order, or the integers of an inclusive range, empty when a > b), each
\* evaluated with q1..qk bound to the tuple, a quantifier binding shadowing an env
\* binding of the same name.
C15_SumOverCartesianProduct ==
  (out.op = "evaluate_expr" /\ ClaimIsSum(out.expr)) =>
    out.r = ClaimSumValue(ClaimBody(out.expr),
                          ClaimTuples(ClaimQuantifiers(out.expr), 1, out.env))

\* a sum of two quantifiers, one of them shadowing a binding of env, with a value
\* that is not 0
C15_Witness ==
  /\ out.op = "evaluate_expr"
  /\ ClaimIsSum(out.expr)
  /\ Len(ClaimQuantifiers(out.expr)) = 2
  /\ \E q \in 1..2 : ClaimQuantifiers(out.expr)[q].name \in DOMAIN out.env
  /\ out.r \notin {Zero, PANIC}

\* ------------------------------------ claims, the penalty coefficient

\* the coefficient a text of OPTICA_PENALTY stands for: its value when it is set
\* and parses as a real, else 1e6
ClaimCoeff(text) ==
  IF text.some /\ ParseF64(text.s) # NoneV THEN ParseF64(text.s) ELSE Dec(1000000, 0)

\* C16: the penalty coefficient is read once and cached: every call of
\* penalty_coeff, from any thread, returns the same value, the value of
\* OPTICA_PENALTY at the first call (1e6 when unset or not parseable); a later
\* change of the environment variable has no effect.
C16_CoefficientReadOnce ==
  run.engine = "penalty_coeff" =>
    \A k \in 1..Len(run.rets) : run.rets[k].r = ClaimCoeff(run.read)

\* two threads have got the coefficient, and the variable no longer has the text
\* that the first call read, nor one that stands for the same coefficient
C16_Witness ==
  /\ run.engine = "penalty_coeff"
  /\ \E j, k \in 1..Len(run.rets) : run.rets[j].t # run.rets[k].t
  /\ ClaimCoeff(OPTICA_PENALTY) # ClaimCoeff(run.read)

\* ------------------------------------------- claims, the engines

\* the passes of its loops, and its return, that a DE worker or the swarm with n
\* members has ahead
ClaimAhead(r, n) ==
  IF r.pc = "start" THEN 2 + r.max_iter * n
  ELSE IF r.pc = "loop" THEN 1 + (r.max_iter - r.iter) * n - r.i
  ELSE 0

\* the sum of ClaimAhead over the first k DE workers
RECURSIVE ClaimAheadSum(_, _)
ClaimAheadSum(de, k) ==
  IF k = 0 THEN 0 ELSE ClaimAheadSum(de, k - 1) + ClaimAhead(de[k].run, de[k].run.size)

\* the budget of the phases of a call r
ClaimBudget(r) == IF r.call = "hybrid" THEN r.max_iter \div 2 ELSE r.max_iter

\* a bound on the steps a call r has ahead: those of its DE phase (the workers, the
\* joins, the return of de) and those of its PSO phase
ClaimStepsAhead(r) ==
  (IF r.pc = "de_call"
   THEN 2 + MaxThreads * (3 + ClaimBudget(r) * MaxI(POP_SIZE, MinSubPop))
   ELSE IF r.pc = "de_run"
   THEN 1 + ClaimAheadSum(r.de, Len(r.de)) + (Len(r.de) - Len(r.joined))
   ELSE 0)
  + (IF r.pc = "pso_call" \/ (r.pc \in {"de_call", "de_run"} /\ r.call = "hybrid")
     THEN 3 + ClaimBudget(r) * N_PARTICLES
     ELSE IF r.pc = "pso_run" THEN 1 + ClaimAhead(r.sw.run, N_PARTICLES)
     ELSE 0)

\* the generations a worker or the swarm has executed or begun
ClaimGenerations(r) ==
  IF r.pc = "loop" THEN r.iter
  ELSE IF r.pc = "done" THEN MinI(r.iter + 1, r.max_iter)
  ELSE 0

\* no parent selection loops for ever, no worker and no call exceeds its budget of
\* generations, and the count returned is at most max_iter
ClaimWithinBudget ==
  run.engine = "solve" =>
    /\ \A t \in DOMAIN run.de : run.de[t].run.pc # "hang"
    /\ \A g \in {ClaimGenerations(run.de[t].run) : t \in DOMAIN run.de} \cup {0} :
         g + ClaimGenerations(run.sw.run) <= run.max_iter
    /\ run.pc = "done" => run.ret.iterations <= run.max_iter

ClaimFromIslands(r) ==
  /\ run.engine = "solve"
  /\ run.de # <<>>
  /\ run.de[1].run.engine = "de_island"
  /\ r # NoneV

\* the triple r carries the pair of island t, whose fitness is the lowest and lower
\* than that of every island before it
ClaimLowestIsland(r, t) ==
  /\ r.x = run.de[t].run.ret.x
  /\ r.fitness = run.de[t].run.ret.fitness
  /\ \A u \in DOMAIN run.de : FLe(run.de[t].run.ret.fitness, run.de[u].run.ret.fitness)
  /\ \A u \in 1..(t - 1) : FLt(run.de[t].run.ret.fitness, run.de[u].run.ret.fitness)

\* what de_parallel has returned: to the caller, or to hybrid as the result of phase 1
ClaimParallelTriple == IF run.call = "hybrid" THEN run.r1 ELSE run.ret

\* C18: parallel DE returns the (best, fitness) of the island with the lowest
\* fitness among all islands; of several islands with the same lowest fitness, the
\* one with the lowest thread index.
C18_LowestIslandFirstOfEqual ==
  ClaimFromIslands(ClaimParallelTriple) =>
    \E t \in DOMAIN run.de : ClaimLowestIsland(ClaimParallelTriple, t)

\* de_parallel has returned from two islands of the same fitness and different best
C18_Witness ==
  /\ ClaimFromIslands(ClaimParallelTriple)
  /\ \E t, u \in DOMAIN run.de :
       /\ t < u
       /\ run.de[t].run.ret.fitness = run.de[u].run.ret.fitness
       /\ run.de[t].run.ret.x # run.de[u].run.ret.x
       /\ ClaimLowestIsland(ClaimParallelTriple, t)

\* de_parallel has returned the pair of an island that is not the first
C18_LaterIslandReturned ==
  /\ ClaimFromIslands(ClaimParallelTriple)
  /\ \E t \in DOMAIN run.de : t > 1 /\ ClaimLowestIsland(ClaimParallelTriple, t)

\* de_parallel has returned from a call of its own with one thread
ClaimParallelOfOne ==
  /\ run.engine = "solve"
  /\ run.call = "de_parallel"
  /\ run.threads = 1
  /\ run.pc = "done"

ClaimParallelOfOnePair ==
  ClaimParallelOfOne =>
    /\ run.ret.x = de_single(model, PENALTY_ENV, run.max_iter).ret.x
    /\ run.ret.fitness = de_single(model, PENALTY_ENV, run.max_iter).ret.fitness

\* a step of the worker of island t
ClaimWorkerStep(t) == WorkerInitialize(t) \/ WorkerMember(t) \/ WorkerReturn(t)

\* a step that writes the PRNG, population, fit array or incumbent of island t is a
\* step of the worker of t and writes no other island; no step writes the model
ClaimIslandsApart ==
  run.engine = "solve" =>
    /\ model' = model
    /\ \A t \in DOMAIN run.de :
         run'.de[t] # run.de[t] =>
           /\ ClaimWorkerStep(t)
           /\ \A u \in DOMAIN run.de \ {t} : run'.de[u] = run.de[u]

\* the closure of island t run from its first statement to its last with no other
\* island running: the pair it returns
ClaimIslandAlone(t) ==
  DeRun(model, PENALTY_ENV,
        DeBegin(model, PENALTY_ENV, "de_island", Budget, SubPop(run.threads), t - 1)).ret

\* de_parallel with its islands run one after the other
ClaimOneAfterTheOther ==
  DeParallelResult([t \in 1..run.threads |-> ClaimIslandAlone(t)], Budget)

\* whatever the interleaving was, de_parallel has returned what the islands run one
\* after the other give
ClaimSameAsOneAfterTheOther ==
  ClaimFromIslands(ClaimParallelTriple) => ClaimParallelTriple = ClaimOneAfterTheOther

\* C20: in parallel DE each island's PRNG, population, fit array and incumbent are
\* written only by that island's worker and the shared Model is never written, so
\* the triple returned by de_parallel is the same under every interleaving of the
\* workers' steps and every order in which the workers finish.
C20_InterleavingsReturnAlike ==
  /\ [][ClaimIslandsApart]_vars
  /\ []ClaimSameAsOneAfterTheOther

\* de_parallel has returned from two islands that each ran a generation and whose
\* pairs differ
C20_Witness ==
  /\ ClaimFromIslands(ClaimParallelTriple)
  /\ Len(run.de) = MaxThreads
  /\ \A t \in DOMAIN run.de : run.de[t].run.iter >= 1
  /\ run.de[1].run.ret # run.de[2].run.ret

\* the second island has returned and the first has not run a statement
ClaimSecondFinishedFirst ==
  /\ run.engine = "solve"
  /\ Len(run.de) = MaxThreads
  /\ run.de[1].run.pc = "start"
  /\ run.de[2].run.pc = "done"
  /\ run.de[2].run.iter >= 1

\* the DE workers of the call that are past their initialisation
ClaimDeRuns ==
  IF run.engine = "solve"
  THEN {run.de[t].run : t \in {u \in DOMAIN run.de : run.de[u].run.pc \in {"loop", "done"}}}
  ELSE {}

\* no worker stands at the head of another generation with its best fitness below
\* TOLERANCE
ClaimStopsBelowTolerance ==
  \A r \in ClaimDeRuns :
    (r.pc = "loop" /\ r.i = 0 /\ 1 <= r.iter /\ r.iter < r.max_iter) =>
      ~FLt(r.best_fit, TOLERANCE)

\* the count a call of de or de_parallel reports is the number of generations its
\* workers executed, and a count below max_iter comes with a fitness below TOLERANCE
ClaimCountIsGenerations ==
  (run.engine = "solve" /\ run.call \in {"de", "de_parallel"} /\ run.pc = "done") =>
    /\ \A t \in DOMAIN run.de : run.ret.iterations = ClaimGenerations(run.de[t].run)
    /\ run.ret.iterations < run.max_iter => FLt(run.ret.fitness, TOLERANCE)

\* C26: in a DE run (serial or island), whenever the global-best fitness is below
\* TOL the run stops without starting another generation, and the iteration count
\* it reports is the number of generations actually executed; hence a reported
\* count smaller than max_iter implies returned fitness < TOL.
C26_StopsBelowToleranceWithCount == ClaimStopsBelowTolerance /\ ClaimCountIsGenerations

\* the last part alone, for de_single and for de_parallel
ClaimCountBelowBudget ==
  (run.engine = "solve" /\ run.call \in {"de", "de_parallel"} /\ run.pc = "done") =>
    (run.ret.iterations < run.max_iter => FLt(run.ret.fitness, TOLERANCE))

\* ------------------------------------------- claims, the crossover

\* v lies within the bounds of the model in every dimension
ClaimWithinBounds(v) ==
  \A j \in 1..model.dim : FLe(model.lb[j], v[j]) /\ FLe(v[j], model.ub[j])

\* clamp(v, lo, hi) for lo <= hi
ClaimClamp(v, lo, hi) == FMax(lo, FMin(v, hi))

\* best[j] + F * (pop[r1][j] - pop[r2][j]) of the crossover on record
ClaimDonor(j) ==
  FAdd(out.best[j], FMul(DE_F, FSub(out.data[out.r1 + 1][j], out.data[out.r2 + 1][j])))

\* dimension j of the crossover on record takes the clamped donor value
ClaimCrossed(j) == j - 1 = out.j_rand \/ FLt(out.rnd_cr[j], DE_CR)

\* the trial as the claim gives it
ClaimTrial ==
  [j \in 1..model.dim |->
     IF ClaimCrossed(j) THEN ClaimClamp(ClaimDonor(j), model.lb[j], model.ub[j])
     ELSE out.data[out.i + 1][j]]

\* C27: during a DE run on a model with lb[j] <= ub[j], every population member,
\* every trial vector and the incumbent best lie within [lb[j], ub[j]] in every
\* dimension j at every step; a trial takes clamp(best[j] + F*(pop[r1][j] -
\* pop[r2][j]), lb[j], ub[j]) in dimension j_rand and in every dimension whose draw
\* is below DE_CR, and pop[i][j] in the others.
C27_DeStaysWithinBounds ==
  /\ (run.engine = "de_single" /\ run.pc \in {"loop", "done"}) =>
       /\ \A k \in 1..run.size : ClaimWithinBounds(run.data[k])
       /\ ClaimWithinBounds(run.best)
       /\ run.pc = "done" => ClaimWithinBounds(run.ret.x)
  /\ out.op = "de_crossover" =>
       /\ ClaimWithinBounds(out.r)
       /\ out.r = ClaimTrial

\* a trial with a dimension cut to a bound and a dimension copied from pop[i]
C27_Witness ==
  /\ out.op = "de_crossover"
  /\ \E j \in 1..model.dim :
       /\ ClaimCrossed(j)
       /\ FLt(out.r[j], ClaimDonor(j)) \/ FGt(out.r[j], ClaimDonor(j))
  /\ \E j \in 1..model.dim : ~ClaimCrossed(j)
  /\ run.pc = "loop"

\* a trial with a dimension copied from pop[i] where the clamped donor value differs
ClaimCopiedNotCrossed ==
  /\ out.op = "de_crossover"
  /\ \E j \in 1..model.dim :
       /\ ~ClaimCrossed(j)
       /\ out.r[j] # ClaimClamp(ClaimDonor(j), model.lb[j], model.ub[j])

\* ------------------------------------------- claims, the parents

\* C28: for every population size >= 3 and every i in [0, size), select_parents(i)
\* returns indices r1 and r2 in [0, size) with r1 != i, r2 != i and r1 != r2, and
\* consumes exactly two PRNG draws whatever the drawn values are, so each
\* individual consumes exactly 3 + dim draws per generation.
C28_ParentsDistinctTwoDraws ==
  /\ out.op = "select_parents" =>
       /\ out.r.r1 \in 0..(run.size - 1)
       /\ out.r.r2 \in 0..(run.size - 1)
       /\ out.r.r1 # run.i
       /\ out.r.r2 # run.i
       /\ out.r.r1 # out.r.r2
       /\ out.r.rng.n = run.rng.n + 2
  /\ out.op = "member" => out.r.rng.n = run.rng.n + 3 + run.dim

\* select_parents has returned after both draws fell on i
C28_Witness ==
  /\ out.op = "select_parents"
  /\ Rng_usize(next_u64(run.rng).result, run.size) = run.i
  /\ Rng_usize(next_u64(next_u64(run.rng).rng).result, run.size) = run.i
  /\ out.r.r1 = (run.i + 1) % run.size
  /\ out.r.r2 = (run.i + 2) % run.size

\* ------------------------------------------- claims, the swarm

\* pso runs, on a model whose bounds do not cross
ClaimSwarmRuns ==
  /\ run.engine = "solve"
  /\ run.pc = "pso_run"
  /\ run.sw.run.pc \in {"loop", "done"}
  /\ \A j \in 1..run.sub.dim : FLe(run.sub.lb[j], run.sub.ub[j])

\* a step that updates particle i of the swarm
ClaimSwarmMoves ==
  /\ ClaimSwarmRuns
  /\ run.sw.run.pc = "loop"
  /\ run.sw.run.iter < run.sw.run.max_iter
  /\ run'.pc = "pso_run"
  /\ run'.sw.run.pc \in {"loop", "done"}

\* every position within the bounds, every velocity within 0.5 * (ub - lb)
ClaimSwarmWithinBounds ==
  ClaimSwarmRuns =>
    \A k \in 1..N_PARTICLES, j \in 1..run.sub.dim :
      /\ FLe(run.sub.lb[j], run.sw.run.pos[k][j])
      /\ FLe(run.sw.run.pos[k][j], run.sub.ub[j])
      /\ FLe(FAbs(run.sw.run.vel[k][j]),
             FMul(Dec(5, 1), FSub(run.sub.ub[j], run.sub.lb[j])))

\* the new position and velocity of the particle that the step updates, and its
\* position before
ClaimParticleBefore == run.sw.run.pos[run.sw.run.i + 1]

ClaimParticleAfter == run'.sw.run.pos[run.sw.run.i + 1]

ClaimVelocityAfter == run'.sw.run.vel[run.sw.run.i + 1]

\* the particle that was updated keeps a velocity other than 0 only in a dimension
\* whose position moved by that velocity, which is one that was not clipped
ClaimClippedStops ==
  ClaimSwarmMoves =>
    \A j \in 1..run.sub.dim :
      ClaimVelocityAfter[j] # Zero =>
        ClaimParticleAfter[j] = FAdd(ClaimParticleBefore[j], ClaimVelocityAfter[j])

\* C29: after every PSO particle update on a model with lb[j] <= ub[j], for every
\* dimension j the position is within [lb[j], ub[j]], the velocity satisfies
\* |vel[j]| <= 0.5*(ub[j]-lb[j]), and the velocity component is 0 in every
\* dimension where the new position was clipped to a bound.
C29_SwarmWithinBoundsClippedStops ==
  /\ []ClaimSwarmWithinBounds
  /\ [][ClaimClippedStops]_vars

\* after updates, a particle stands on a bound with velocity 0, away from its
\* personal best
C29_Witness ==
  /\ ClaimSwarmRuns
  /\ run.sw.run.iter > 0 \/ run.sw.run.i > 0
  /\ \E k \in 1..N_PARTICLES, j \in 1..run.sub.dim :
       /\ FLt(run.sub.lb[j], run.sub.ub[j])
       /\ run.sw.run.pos[k][j] \in {run.sub.lb[j], run.sub.ub[j]}
       /\ run.sw.run.vel[k][j] = Zero
       /\ run.sw.run.pbest[k][j] # run.sw.run.pos[k][j]

\* a particle has moved by a velocity other than 0
ClaimMovedFreely ==
  /\ ClaimSwarmRuns
  /\ \E k \in 1..N_PARTICLES, j \in 1..run.sub.dim : run.sw.run.vel[k][j] # Zero

\* ------------------------------------------- claims, hybrid

\* hybrid is past its DE phase
ClaimSecondPhase ==
  /\ run.engine = "solve"
  /\ run.call = "hybrid"
  /\ run.pc \in {"pso_call", "pso_run", "done"}

\* 0.1 * (ub[j] - lb[j])
ClaimReach(j) == FMul(Dec(1, 1), FSub(model.ub[j], model.lb[j]))

ClaimLb2(j) == FMax(FSub(run.r1.x[j], ClaimReach(j)), model.lb[j])

ClaimUb2(j) == FMin(FAdd(run.r1.x[j], ClaimReach(j)), model.ub[j])

\* the bounds of phase 2 are lb2 and ub2, in order between the bounds of the model
\* and around x1; pso takes its v_max from them
ClaimSecondPhaseBounds ==
  ClaimSecondPhase =>
    /\ \A j \in 1..model.dim :
         /\ run.sub.lb[j] = ClaimLb2(j)
         /\ run.sub.ub[j] = ClaimUb2(j)
         /\ FLe(model.lb[j], run.sub.lb[j])
         /\ FLe(run.sub.lb[j], run.r1.x[j])
         /\ FLe(run.r1.x[j], run.sub.ub[j])
         /\ FLe(run.sub.ub[j], model.ub[j])
         /\ run.sw.run.pc \in {"loop", "done"} =>
              /\ run.sw.run.v_max[j] = FMul(Dec(5, 1), FSub(ClaimUb2(j), ClaimLb2(j)))
              /\ \A k \in 1..N_PARTICLES :
                   /\ FLe(ClaimLb2(j), run.sw.run.pos[k][j])
                   /\ FLe(run.sw.run.pos[k][j], ClaimUb2(j))

\* the result of hybrid: the smaller fitness with the vector of its phase, phase 1
\* on a tie
ClaimBetterPhase ==
  (ClaimSecondPhase /\ run.pc = "done") =>
    /\ run.ret.fitness = FMin(run.r1.fitness, run.sw.run.ret.fitness)
    /\ run.ret.x = IF FLt(run.sw.run.ret.fitness, run.r1.fitness)
                   THEN run.sw.run.ret.x ELSE run.r1.x

\* C30: in hybrid, with x1 the DE phase result, the PSO phase runs on bounds
\* lb2[j] = max(x1[j] - 0.1*(ub[j]-lb[j]), lb[j]) and ub2[j] = min(x1[j] +
\* 0.1*(ub[j]-lb[j]), ub[j]) that satisfy lb[j] <= lb2[j] <= x1[j] <= ub2[j] <= ub[j];
\* the original model is left unchanged; and the returned fitness equals min(f1, f2)
\* with the assignment of the phase that attained it (the DE result on a tie).
C30_HybridSecondPhase ==
  /\ [](ClaimSecondPhaseBounds /\ ClaimBetterPhase)
  /\ [][run.engine = "solve" /\ run.call = "hybrid" => model' = model]_vars

\* the same on the models whose bounds do not cross
ClaimSecondPhaseUncrossed ==
  (\A j \in 1..model.dim : FLe(model.lb[j], model.ub[j])) =>
    ClaimSecondPhaseBounds /\ ClaimBetterPhase

\* hybrid has returned; phase 2 ran on bounds cut to the model's on one side and
\* drawn in on the other
C30_Witness ==
  /\ ClaimSecondPhase
  /\ run.pc = "done"
  /\ \E j \in 1..model.dim :
       /\ run.sub.lb[j] = model.lb[j]
       /\ FLt(FSub(run.r1.x[j], ClaimReach(j)), model.lb[j])
       /\ FLt(run.sub.ub[j], model.ub[j])

\* hybrid has returned the result of phase 2, the better one
ClaimSecondPhaseBetter ==
  /\ ClaimSecondPhase
  /\ run.pc = "done"
  /\ FLt(run.sw.run.ret.fitness, run.r1.fitness)
  /\ run.ret.x = run.sw.run.ret.x

\* hybrid has returned from a tie of two different vectors
ClaimPhasesTied ==
  /\ ClaimSecondPhase
  /\ run.pc = "done"
  /\ run.sw.run.ret.fitness = run.r1.fitness
  /\ run.sw.run.ret.x # run.r1.x

\* ------------------------------------------- claims, the source text

\* parse returned a Model to cmd_solve
ClaimParsed == run.engine = "cmd_solve" /\ run.pc \notin {"parse", "panic"}

ClaimLengthsAreDim ==
  /\ Len(model.lb) = model.dim
  /\ Len(model.ub) = model.dim
  /\ Len(model.var_names) = model.dim

ClaimBoundsOrdered ==
  \A j \in 1..Len(model.lb) : j <= Len(model.ub) => FLe(model.lb[j], model.ub[j])

\* C24: every Model parse returns has len(lb) = len(ub) = len(var_names) = dim and
\* lb[j] <= ub[j] for every j, whatever var, state and decision declarations the
\* text holds.
C24_ParsedBoundsOrdered == ClaimParsed => (ClaimLengthsAreDim /\ ClaimBoundsOrdered)

\* the lengths alone
ClaimParsedLengths == ClaimParsed => ClaimLengthsAreDim

\* a text of two declarations, one of them indexed, was parsed
ClaimParsedIndexed ==
  /\ ClaimParsed
  /\ Len(run.decls) = 2
  /\ model.dim = 3
  /\ ClaimBoundsOrdered

\* the objectives block of the source declares a pareto method
ClaimDeclares == run.engine = "cmd_solve" /\ run.declared.kind # "Single"

\* C22: a text whose objectives block declares the epsilon-constraint method with a
\* primary and "NAME <= t" lines, or the weighted-sum method with "weight NAME: w"
\* lines, is parsed to a model whose pareto is Epsilon or WeightedSum with exactly
\* the declared entries, a text with no "subject to" section included.
C22_ParetoAsDeclared == (ClaimParsed /\ ClaimDeclares) => model.pareto = run.declared

\* the source has a "subject to" line after its objectives block
ClaimBlockClosed ==
  \E k \in 1..Len(run.source) : Trim(run.source[k]) = <<"s", "u", "b", "j", "e", "c", "t", " ", "t", "o">>

\* the same for the texts whose objectives block is closed by "subject to"
ClaimParetoWhenClosed ==
  (ClaimParsed /\ ClaimDeclares /\ ClaimBlockClosed) => model.pareto = run.declared

ClaimEpsilonParsed ==
  /\ ClaimParsed
  /\ ClaimBlockClosed
  /\ model.pareto = EpsilonDeclared

ClaimWeightsParsed ==
  /\ ClaimParsed
  /\ ClaimBlockClosed
  /\ model.pareto = WeightsDeclared

\* the model is being solved and its source has a constraint whose right-hand side
\* names a scalar parameter the model holds
ClaimRhsNamesParam ==
  /\ run.engine = "cmd_solve"
  /\ run.pc \in {"solve", "done"}
  /\ run.rhs_param.some
  /\ MapHas(model.params, run.rhs_param.s)
  /\ MapHas(model.params[run.rhs_param.s], <<"_">>)

\* C23: the rhs check_constraints uses for a constraint whose right-hand side is a
\* scalar parameter name is the value of that parameter in the model being solved,
\* be the parameter defined by a param statement before the line, a data block
\* after it or the sidecar JSON.
C23_RhsIsParameterValue ==
  ClaimRhsNamesParam =>
    /\ model.constraints # <<>>
    /\ \A k \in 1..Len(model.constraints) :
         model.constraints[k].rhs = model.params[run.rhs_param.s][<<"_">>]

\* the parameter is defined above the constraint line
ClaimDefinedAbove ==
  \E k \in 1..Len(run.source) :
    /\ Trim(run.source[k]) \in {<<"p", "a", "r", "a", "m", " ", "c", "a", "p", " ", "=", " ", "7", ";">>, <<"c", "a", "p", " ", "=", " ", "7">>}
    /\ \E l \in (k + 1)..Len(run.source) : Trim(run.source[l]) = <<"c", "1", ":", " ", "x", " ", "<", "=", " ", "c", "a", "p", ";">>

\* the same for a parameter defined above the constraint line
ClaimRhsWhenDefinedAbove ==
  (ClaimRhsNamesParam /\ ClaimDefinedAbove) =>
    /\ model.constraints # <<>>
    /\ \A k \in 1..Len(model.constraints) :
         model.constraints[k].rhs = model.params[run.rhs_param.s][<<"_">>]

\* check_constraints ran with the value of the parameter as rhs
ClaimRhsChecked ==
  /\ ClaimRhsNamesParam
  /\ out.op = "check_constraints"
  /\ model.constraints # <<>>
  /\ model.constraints[1].rhs = FromInt(7)

\* ------------------------------------------- claims, the command line

\* the Args after one option was applied
ClaimOptApply(a, opt) ==
  IF opt.field = "method" THEN [a EXCEPT !.method = opt.s]
  ELSE IF opt.field = "max_iter" THEN [a EXCEPT !.max_iter = opt.n]
  ELSE IF opt.field = "threads" THEN [a EXCEPT !.threads = opt.n]
  ELSE IF opt.field = "verbose" THEN [a EXCEPT !.verbose = TRUE]
  ELSE [a EXCEPT !.quiet = TRUE]

\* the Args after every option of a list was applied in the order written
RECURSIVE ClaimOptsApplied(_, _)
ClaimOptsApplied(a, opts) ==
  IF opts = <<>> THEN a ELSE ClaimOptsApplied(ClaimOptApply(a, Head(opts)), Tail(opts))

\* Args::parse returned for a command line of one of the two documented forms
ClaimFormParsed ==
  /\ run.engine = "main"
  /\ run.form \in {"file", "solve"}
  /\ out.op = "Args::parse"

ClaimArgsAsWritten ==
  /\ out.r.ok
  /\ out.r.args =
       ClaimOptsApplied(ArgsDefault([kind |-> "Solve", file |-> FileArg, dim |-> 0], run.cpus),
                    run.opts)

\* C25: in both forms, "<file> [OPTIONS]" and "solve <file> [OPTIONS]", every option
\* after the file is applied to the Args returned, whatever its position among the
\* options, and the file is the one named.
C25_OptionsAfterFileApplied == ClaimFormParsed => ClaimArgsAsWritten

\* the same for the form "solve <file> [OPTIONS]" alone
ClaimSolveFormApplied == (ClaimFormParsed /\ run.form = "solve") => ClaimArgsAsWritten

\* the file is the one named, in both forms
ClaimFileNamed ==
  ClaimFormParsed =>
    /\ out.r.ok
    /\ out.r.args.command = [kind |-> "Solve", file |-> FileArg, dim |-> 0]

\* three options after "solve <file>" were applied and cmd_solve is entered
ClaimSolveFormRan ==
  /\ ClaimFormParsed
  /\ run.form = "solve"
  /\ Len(run.opts) = 3
  /\ run.pc = "Solve"
  /\ out.r.args.method = <<"p", "s", "o">>
  /\ out.r.args.quiet

\* ------------------------------------------- claims, the dispatch

\* the engine the claim names for a method string
ClaimEngineOf(method, dim) ==
  IF method = <<"d", "e">> THEN "de"
  ELSE IF method = <<"p", "s", "o">> THEN "pso"
  ELSE IF method = <<"h", "y", "b", "r", "i", "d">> THEN "hybrid"
  ELSE IF dim <= AutoPsoMaxDim THEN "pso" ELSE "de"

\* with dim = 0 the process never leaves cmd_solve
ClaimNoEngineOnEmpty ==
  model.dim = 0 => (run.engine = "cmd_solve" /\ run.pc \in {"dim", "fatal"})

\* an engine was entered: it is the one the method string names
ClaimEngineByMethod ==
  (run.engine = "solve" /\ run.method \in {<<"d", "e">>, <<"p", "s", "o">>, <<"h", "y", "b", "r", "i", "d">>, <<"a", "u", "t", "o">>}) =>
    run.call = ClaimEngineOf(run.method, model.dim)

\* cmd_solve ended: the fatal error for dim = 0, else a triple from the engine
ClaimEnded ==
  \/ model.dim = 0 /\ run.engine = "cmd_solve" /\ run.pc = "fatal"
  \/ /\ model.dim # 0
     /\ run.engine = "solve"
     /\ run.pc = "done"
     /\ DOMAIN run.ret = {"x", "fitness", "iterations"}
     /\ Len(run.ret.x) = model.dim

\* a thread of the engine panicked, or the process did
ClaimPanicked ==
  /\ run.engine = "solve"
  /\ \/ run.pc = "panic"
     \/ \E t \in DOMAIN run.de : run.de[t].run.pc = "panic"
     \/ run.sw.run.pc = "panic"

\* the engine returns a triple: nothing panics, and the call ends with a triple
ClaimReturnsTriple ==
  /\ ~ClaimPanicked
  /\ (run.pc \in {"fatal", "done"} => ClaimEnded)

\* C21: with dim = 0 after parsing the solve ends with the fatal error and no engine
\* is entered; otherwise, the exact backend being unused or giving None, the engine
\* is the one the method string names ('auto': PSO up to the threshold, DE above)
\* and a triple is returned.
C21_EntryDispatch == ClaimNoEngineOnEmpty /\ ClaimEngineByMethod /\ ClaimReturnsTriple

\* the same on the models whose bounds do not cross
ClaimEntryUncrossed ==
  ClaimBoundsOrdered => (ClaimNoEngineOnEmpty /\ ClaimEngineByMethod /\ ClaimReturnsTriple)

\* the fatal error ended a solve with dim = 0
ClaimFatal == model.dim = 0 /\ run.pc = "fatal"

\* 'auto' above the threshold returned a triple from DE
ClaimAutoRanDe ==
  /\ run.engine = "solve"
  /\ run.method = <<"a", "u", "t", "o">>
  /\ model.dim > AutoPsoMaxDim
  /\ run.call = "de"
  /\ ClaimEnded

\* the fallback after solve_cp_entry gave None returned a triple
ClaimFallbackRan ==
  /\ run.engine = "solve"
  /\ model.cp_globals # <<>>
  /\ ClaimEnded

\* ------------------------------------------- claims, two processes

\* C1: two runs of an engine on the same model, seed, method, iteration budget and
\* thread count return the same triple (x, fitness, iterations).
C1_TwinRunsReturnAlike ==
  (twin # NoTwin /\ run.pc = "done" /\ twin.run.pc = "done") => run.ret = twin.run.ret

====
